---- MODULE Spec2Model ----
\* Workflow model (molten-core/src/workflow.rs), the phase-transition engine
\* (molten-workflow/src/engine.rs), the field and form builders
\* (molten-core/src/field.rs, form.rs), the document validator
\* (molten-document/src/validator.rs), the serde form of FieldType, the
\* document service (molten-service/src/services/document.rs) and the document
\* repository (molten-storage-seaorm/src/repo/document.rs) of molten-rs.
\*
\* A WorkflowBuilder is filled by add_phase / add_transition and turned into a
\* WorkflowDefinition by build (TryFrom<WorkflowBuilder>); a JSON document is
\* deserialized through the same conversion.  Documents loaded from storage are
\* then moved through the built workflow by transition.  Each part of the
\* program has its own specification over the one Init: Spec, SpecField,
\* SpecForm, SpecValidator, SpecLifecycle, SpecSerde, SpecService and
\* SpecCallers.
EXTENDS Integers, Sequences, FiniteSets, TLC

VARIABLES
    pc,        \* "building" | "built" | "rejected": where the workflow's construction stands
    builder,   \* the WorkflowBuilder being filled
    wf,        \* the WorkflowDefinition build returned (NoWorkflow before / on failure)
    built,     \* the Result of build: [ok, errors]
    doc,       \* the Document the caller holds (NoDocument before it is loaded)
    call,      \* the last transition call: its arguments, the document before it, its Result
    field_pc,       \* where the FieldBuilder's construction stands
    field_builder,  \* the FieldBuilder being filled
    field_built,    \* the Result of FieldBuilder::build: [ok, def, errors]
    form_pc,        \* where the FormBuilder's construction stands
    form_builder,   \* the FormBuilder being filled
    form_built,     \* the Result of FormBuilder::build or of the deserializer: [via, ok, form, errors]
    vform,     \* the FormDefinition validate_document is given
    vdoc,      \* the Document validate_document is given
    vcall,     \* the last validate_document call: its arguments and its Result
    trail,     \* what became of a document since it was loaded new: [created, succeeded, entered]
    ser,       \* a FieldType on its way through serde_json: [pc, value, json, parsed]
    db,        \* the tables of the database: [forms, workflows, documents]
    created,   \* the last create_document call: the tables before it, its arguments, its Result
    shared,    \* the FormDefinition and the WorkflowDefinition every caller borrows
    published, \* the definitions as they were when they were shared
    frames,    \* each caller: [pc, doc, call], its own Document and its last call
    applied    \* the last DocumentRepository::update: the caller, its Document, the row before

workflowVars == <<pc, builder, wf, built, doc, call>>
fieldVars == <<field_pc, field_builder, field_built>>
formVars == <<form_pc, form_builder, form_built>>
validatorVars == <<vform, vdoc, vcall>>
lifecycleVars == <<trail>>
serdeVars == <<ser>>
serviceVars == <<db, created>>
callerVars == <<shared, published, frames, applied>>

vars == <<workflowVars, fieldVars, formVars, validatorVars, lifecycleVars, serdeVars,
         serviceVars, callerVars>>

-----------------------------------------------------------------------------
\* Bounds of the model

MaxPhases == 2
MaxTransitions == 2
MaxFields == 4
MaxItems == 2
\* The calls of validate_document a caller makes on one document
MaxCalls == 2

\* Limits of the #[validate(length(..))] attributes
MinLen == 1
MaxIdLen == 64
MaxNameLen == 100

-----------------------------------------------------------------------------
\* Input values

\* A 65-character id: one more than MaxIdLen.
LongId == "wf_ticket_wf_ticket_wf_ticket_wf_ticket_wf_ticket_wf_ticket_12345"

WorkflowIds == {"wf_ticket", "", LongId}
WorkflowNames == {"Ticket Workflow", ""}
PhaseIds == {"draft", "review"}
PhaseLabels == {"Phase"}
TransitionNames == {"move"}

\* enum PhaseType
PhaseType == {"Start", "Normal", "End"}

\* Option<T>
None == [some |-> FALSE]
Some(v) == [some |-> TRUE, val |-> v]

Min(S) == CHOOSE m \in S : \A n \in S : m <= n

\* Phase::new
PhaseNew(id, label, phase_type) == [id |-> id, label |-> label, phase_type |-> phase_type]

\* Transition::new
TransitionNew(name, from, to) == [name |-> name, from |-> from, to |-> to]

Phases == {PhaseNew(i, l, t) : i \in PhaseIds, l \in PhaseLabels, t \in PhaseType}
Transitions == {TransitionNew(n, f, t) : n \in TransitionNames, f \in PhaseIds, t \in PhaseIds}

\* WorkflowBuilder::new
WorkflowBuilderNew(id, name) ==
    [id |-> id, name |-> name, phases |-> <<>>, transitions |-> <<>>]

\* WorkflowBuilder::add_phase
add_phase(b, phase) == [b EXCEPT !.phases = Append(@, phase)]

\* WorkflowBuilder::add_transition
add_transition(b, transition) == [b EXCEPT !.transitions = Append(@, transition)]

-----------------------------------------------------------------------------
\* WorkflowGraph for WorkflowDefinition

\* self.transitions.iter().any(|t| t.from == current_phase && t.to == target_phase)
can_transition_end_locked(w, current_phase, target_phase) ==
    /\ \E i \in 1..Len(w.transitions) :
          w.transitions[i].from = current_phase /\ w.transitions[i].to = target_phase
    /\ ~ \E j \in 1..Len(w.phases) :
          w.phases[j].id = current_phase /\ w.phases[j].phase_type = "End"

can_transition_target_only(w, current_phase, target_phase) ==
    \E i \in 1..Len(w.transitions) : w.transitions[i].to = target_phase

\* Variant: the transition is looked up from the target to the current phase.
can_transition_backwards(w, current_phase, target_phase) ==
    \E i \in 1..Len(w.transitions) :
        w.transitions[i].from = target_phase /\ w.transitions[i].to = current_phase

can_transition(w, current_phase, target_phase) ==
    \E i \in 1..Len(w.transitions) :
        w.transitions[i].from = current_phase /\ w.transitions[i].to = target_phase

\* self.phases.iter().find(|p| p.id == phase_id)
get_phase(w, phase_id) ==
    LET hits == {i \in 1..Len(w.phases) : w.phases[i].id = phase_id}
    IN  IF hits = {} THEN None ELSE Some(w.phases[Min(hits)])

\* self.phases.iter().find(|p| p.phase_type == PhaseType::Start)
get_start_phase_or_first(w) ==
    LET hits == {i \in 1..Len(w.phases) : w.phases[i].phase_type = "Start"}
    IN  IF hits # {} THEN Some(w.phases[Min(hits)])
        ELSE IF Len(w.phases) > 0 THEN Some(w.phases[1]) ELSE None

get_start_phase_last(w) ==
    LET hits == {i \in 1..Len(w.phases) : w.phases[i].phase_type = "Start"}
    IN  IF hits = {} THEN None ELSE Some(w.phases[CHOOSE m \in hits : \A n \in hits : n <= m])

get_start_phase(w) ==
    LET hits == {i \in 1..Len(w.phases) : w.phases[i].phase_type = "Start"}
    IN  IF hits = {} THEN None ELSE Some(w.phases[Min(hits)])

-----------------------------------------------------------------------------
\* Validation

\* One entry of validator::ValidationErrors: the struct field it hangs on, the
\* position in that field's list (0 for a scalar field), the nested field
\* ("" when the finding is on the field itself) and the rule's code.
Finding(field, index, sub, code) ==
    [field |-> field, index |-> index, sub |-> sub, code |-> code]

\* #[validate(length(min = .., max = ..))]
LengthOk(s, min, max) == Len(s) >= min /\ Len(s) <= max

\* #[derive(Validate)] on Phase
ValidatePhase(p, i) ==
    (IF LengthOk(p.id, MinLen, MaxIdLen) THEN {} ELSE {Finding("phases", i, "id", "length")})
    \cup
    (IF LengthOk(p.label, MinLen, MaxNameLen) THEN {} ELSE {Finding("phases", i, "label", "length")})

\* #[derive(Validate)] on Transition
ValidateTransition(t, i) ==
    (IF LengthOk(t.name, MinLen, MaxNameLen) THEN {} ELSE {Finding("transitions", i, "name", "length")})
    \cup
    (IF LengthOk(t.from, MinLen, MaxIdLen) THEN {} ELSE {Finding("transitions", i, "from", "length")})
    \cup
    (IF LengthOk(t.to, MinLen, MaxIdLen) THEN {} ELSE {Finding("transitions", i, "to", "length")})

\* #[derive(Validate)] on WorkflowDefinition: every attribute is evaluated and
\* every finding is collected.
Validate(w) ==
    (IF LengthOk(w.id, MinLen, MaxIdLen) THEN {} ELSE {Finding("id", 0, "", "length")})
    \cup
    (IF LengthOk(w.name, MinLen, MaxNameLen) THEN {} ELSE {Finding("name", 0, "", "length")})
    \cup
    UNION {ValidatePhase(w.phases[i], i) : i \in 1..Len(w.phases)}
    \cup
    UNION {ValidateTransition(w.transitions[i], i) : i \in 1..Len(w.transitions)}

\* fn validate_workflow_integrity: the findings it adds under "transitions",
\* one per dangling end of each transition (index = the transition's position).
validate_workflow_integrity_source_only(w) ==
    LET phase_ids == {w.phases[i].id : i \in 1..Len(w.phases)}
    IN  {Finding("transitions", i, "", "invalid_transition_source") :
            i \in {j \in 1..Len(w.transitions) : w.transitions[j].from \notin phase_ids}}

\* Variant: only the target of a transition has to name a phase.
validate_workflow_integrity_target_only(w) ==
    LET phase_ids == {w.phases[i].id : i \in 1..Len(w.phases)}
    IN  {Finding("transitions", i, "", "invalid_transition_target") :
            i \in {j \in 1..Len(w.transitions) : w.transitions[j].to \notin phase_ids}}

validate_workflow_integrity(w) ==
    LET phase_ids == {w.phases[i].id : i \in 1..Len(w.phases)}
    IN  {Finding("transitions", i, "", "invalid_transition_source") :
            i \in {j \in 1..Len(w.transitions) : w.transitions[j].from \notin phase_ids}}
        \cup
        {Finding("transitions", i, "", "invalid_transition_target") :
            i \in {j \in 1..Len(w.transitions) : w.transitions[j].to \notin phase_ids}}

NoWorkflow == [id |-> "", name |-> "", phases |-> <<>>, transitions |-> <<>>]

\* impl TryFrom<WorkflowBuilder> for WorkflowDefinition: `wf.validate()?`
\* returns the structural findings at once; the integrity pass runs only when
\* there are none.
TryFrom(b) ==
    LET w == [id |-> b.id, name |-> b.name, phases |-> b.phases, transitions |-> b.transitions]
        structural == Validate(w)
        integrity == validate_workflow_integrity(w)
    IN  IF structural # {} THEN [ok |-> FALSE, wf |-> NoWorkflow, errors |-> structural]
        ELSE IF integrity # {} THEN [ok |-> FALSE, wf |-> NoWorkflow, errors |-> integrity]
        ELSE [ok |-> TRUE, wf |-> w, errors |-> {}]

\* #[serde(try_from = "WorkflowBuilder")] with #[serde(default)] on phases and
\* transitions: a JSON object becomes a WorkflowBuilder, a missing list an empty one.
FromJson(json) ==
    [id |-> json.id, name |-> json.name,
     phases |-> IF json.has_phases THEN json.phases ELSE <<>>,
     transitions |-> IF json.has_transitions THEN json.transitions ELSE <<>>]

SeqsUpTo(S, n) == UNION {[1..k -> S] : k \in 0..n}

JsonInputs ==
    {[id |-> i, name |-> n, has_phases |-> TRUE, phases |-> ps,
      has_transitions |-> TRUE, transitions |-> ts] :
        i \in WorkflowIds, n \in WorkflowNames,
        ps \in SeqsUpTo(Phases, MaxPhases), ts \in SeqsUpTo(Transitions, MaxTransitions)}
    \cup
    {[id |-> i, name |-> n, has_phases |-> hp, phases |-> <<>>,
      has_transitions |-> ht, transitions |-> <<>>] :
        i \in WorkflowIds, n \in WorkflowNames, hp \in BOOLEAN, ht \in BOOLEAN}

-----------------------------------------------------------------------------
\* serde_json::Value

JsonNull == [json |-> "Null"]
JsonBool(b) == [json |-> "Bool", b |-> b]
JsonNumber(n) == [json |-> "Number", n |-> n]
JsonString(s) == [json |-> "String", s |-> s]
JsonArray(items) == [json |-> "Array", items |-> items]
JsonObject == [json |-> "Object"]

-----------------------------------------------------------------------------
\* Documents

\* The fields of struct Document
DocumentFields ==
    {"id", "form_id", "workflow_id", "current_phase", "data", "created_at", "updated_at"}

DocumentWorkflowIds == {"wf_ticket", "other_workflow_id"}
StoredPhases == {"", "draft", "review", "archived"}
DocumentData == {{}, {[key |-> "title", value |-> JsonString("Server Crash")]}}

\* Rows of the documents table (entities::document::Model)
Rows ==
    {[id |-> "doc1", form_id |-> "form_ticket", workflow_id |-> w, current_phase |-> p,
      data |-> d, created_at |-> 1, updated_at |-> 1] :
        w \in DocumentWorkflowIds, p \in StoredPhases, d \in DocumentData}

\* DocumentRepository::find_by_id, Some(m) arm: DB model -> domain model
find_by_id(m) ==
    [id |-> m.id, form_id |-> m.form_id, workflow_id |-> m.workflow_id,
     current_phase |-> m.current_phase, data |-> m.data,
     created_at |-> m.created_at, updated_at |-> m.updated_at]

NoDocument ==
    [id |-> "", form_id |-> "", workflow_id |-> "", current_phase |-> "",
     data |-> {}, created_at |-> 0, updated_at |-> 0]

-----------------------------------------------------------------------------
\* enum WorkflowError and Result<(), WorkflowError>

WorkflowMismatch(doc_wf, provided_wf) ==
    [kind |-> "WorkflowMismatch", doc_wf |-> doc_wf, provided_wf |-> provided_wf]
UnknownPhase(s) == [kind |-> "UnknownPhase", phase |-> s]
InvalidTransition(current, target) ==
    [kind |-> "InvalidTransition", current |-> current, target |-> target]

Ok == [ok |-> TRUE]
Err(e) == [ok |-> FALSE, err |-> e]

\* What a call of transition leaves: the document (taken by &mut) and the Result.
Outcome(d, r) == [doc |-> d, result |-> r]

-----------------------------------------------------------------------------
\* pub fn transition(doc: &mut Document, workflow: &WorkflowDefinition, target_phase_id: &str)

\* Variant: the phase is written before the edge is checked.
transition_writes_first(d, w, target_phase_id) ==
    IF d.workflow_id # w.id
    THEN Outcome(d, Err(WorkflowMismatch(d.workflow_id, w.id)))
    ELSE IF ~get_phase(w, target_phase_id).some
    THEN Outcome(d, Err(UnknownPhase(target_phase_id)))
    ELSE IF d.current_phase = ""
    THEN LET start_phase == get_start_phase(w)
         IN  IF start_phase.some
             THEN IF start_phase.val.id = target_phase_id
                  THEN Outcome([d EXCEPT !.current_phase = target_phase_id], Ok)
                  ELSE Outcome(d, Err(InvalidTransition("WAITING_TO_START", target_phase_id)))
             ELSE Outcome(d, Err(UnknownPhase("No start phase defined")))
    ELSE IF ~can_transition(w, d.current_phase, target_phase_id)
    THEN Outcome([d EXCEPT !.current_phase = target_phase_id],
                 Err(InvalidTransition(d.current_phase, target_phase_id)))
    ELSE Outcome([d EXCEPT !.current_phase = target_phase_id], Ok)

\* Variant: the target's existence is checked before the workflow ids are compared.
transition_target_before_mismatch(d, w, target_phase_id) ==
    IF ~get_phase(w, target_phase_id).some
    THEN Outcome(d, Err(UnknownPhase(target_phase_id)))
    ELSE IF d.workflow_id # w.id
    THEN Outcome(d, Err(WorkflowMismatch(d.workflow_id, w.id)))
    ELSE IF d.current_phase = ""
    THEN LET start_phase == get_start_phase(w)
         IN  IF start_phase.some
             THEN IF start_phase.val.id = target_phase_id
                  THEN Outcome([d EXCEPT !.current_phase = target_phase_id], Ok)
                  ELSE Outcome(d, Err(InvalidTransition("WAITING_TO_START", target_phase_id)))
             ELSE Outcome(d, Err(UnknownPhase("No start phase defined")))
    ELSE IF ~can_transition(w, d.current_phase, target_phase_id)
    THEN Outcome(d, Err(InvalidTransition(d.current_phase, target_phase_id)))
    ELSE Outcome([d EXCEPT !.current_phase = target_phase_id], Ok)

\* Variant: a new document is handled before the target's existence is checked.
transition_start_before_target(d, w, target_phase_id) ==
    IF d.workflow_id # w.id
    THEN Outcome(d, Err(WorkflowMismatch(d.workflow_id, w.id)))
    ELSE IF d.current_phase = ""
    THEN LET start_phase == get_start_phase(w)
         IN  IF start_phase.some
             THEN IF start_phase.val.id = target_phase_id
                  THEN Outcome([d EXCEPT !.current_phase = target_phase_id], Ok)
                  ELSE Outcome(d, Err(InvalidTransition("WAITING_TO_START", target_phase_id)))
             ELSE Outcome(d, Err(UnknownPhase("No start phase defined")))
    ELSE IF ~get_phase(w, target_phase_id).some
    THEN Outcome(d, Err(UnknownPhase(target_phase_id)))
    ELSE IF ~can_transition(w, d.current_phase, target_phase_id)
    THEN Outcome(d, Err(InvalidTransition(d.current_phase, target_phase_id)))
    ELSE Outcome([d EXCEPT !.current_phase = target_phase_id], Ok)

\* Variant: a successful move also touches updated_at, as set_value does.
transition_touches_updated_at(d, w, target_phase_id) ==
    IF d.workflow_id # w.id
    THEN Outcome(d, Err(WorkflowMismatch(d.workflow_id, w.id)))
    ELSE IF ~get_phase(w, target_phase_id).some
    THEN Outcome(d, Err(UnknownPhase(target_phase_id)))
    ELSE IF d.current_phase = ""
    THEN LET start_phase == get_start_phase(w)
         IN  IF start_phase.some
             THEN IF start_phase.val.id = target_phase_id
                  THEN Outcome([d EXCEPT !.current_phase = target_phase_id,
                                         !.updated_at = @ + 1], Ok)
                  ELSE Outcome(d, Err(InvalidTransition("WAITING_TO_START", target_phase_id)))
             ELSE Outcome(d, Err(UnknownPhase("No start phase defined")))
    ELSE IF ~can_transition(w, d.current_phase, target_phase_id)
    THEN Outcome(d, Err(InvalidTransition(d.current_phase, target_phase_id)))
    ELSE Outcome([d EXCEPT !.current_phase = target_phase_id, !.updated_at = @ + 1], Ok)

transition(d, w, target_phase_id) ==
    \* 1. Sanity Check: Does the document belong to this workflow?
    IF d.workflow_id # w.id
    THEN Outcome(d, Err(WorkflowMismatch(d.workflow_id, w.id)))
    \* 2. Validate Target Phase Existence
    ELSE IF ~get_phase(w, target_phase_id).some
    THEN Outcome(d, Err(UnknownPhase(target_phase_id)))
    \* 3. Handle "New" Documents (Empty Phase)
    ELSE IF d.current_phase = ""
    THEN LET start_phase == get_start_phase(w)
         IN  IF start_phase.some
             THEN IF start_phase.val.id = target_phase_id
                  THEN Outcome([d EXCEPT !.current_phase = target_phase_id], Ok)
                  ELSE Outcome(d, Err(InvalidTransition("WAITING_TO_START", target_phase_id)))
             ELSE Outcome(d, Err(UnknownPhase("No start phase defined")))
    \* 4. Validate the Edge (The Transition Rule)
    ELSE IF ~can_transition(w, d.current_phase, target_phase_id)
    THEN Outcome(d, Err(InvalidTransition(d.current_phase, target_phase_id)))
    \* 5. Apply the Change
    ELSE Outcome([d EXCEPT !.current_phase = target_phase_id], Ok)

-----------------------------------------------------------------------------
\* Strings as characters

\* A 101-character label: one more than MaxNameLen.
LongLabel == "Label_Label_Label_Label_Label_Label_Label_Label_Label_Label_Label_Label_Label_Label_Label_Label_Label"

Letters ==
    {"a", "b", "c", "d", "e", "f", "g", "h", "i", "j", "k", "l", "m",
     "n", "o", "p", "q", "r", "s", "t", "u", "v", "w", "x", "y", "z",
     "A", "B", "C", "D", "E", "F", "G", "H", "I", "J", "K", "L", "M",
     "N", "O", "P", "Q", "R", "S", "T", "U", "V", "W", "X", "Y", "Z"}
Digits == {"0", "1", "2", "3", "4", "5", "6", "7", "8", "9"}

LongIdPart == <<"w", "f", "_", "t", "i", "c", "k", "e", "t", "_">>

\* The characters of the strings the model feeds to a regex or a parser
\* (TLC strings are atomic: the table spells each of them out).
Chars(s) ==
    CASE s = "" ->
            <<>>
      [] s = "ticket" ->
            <<"t", "i", "c", "k", "e", "t">>
      [] s = "bug report" ->
            <<"b", "u", "g", " ", "r", "e", "p", "o", "r", "t">>
      [] s = "title" ->
            <<"t", "i", "t", "l", "e">>
      [] s = "severity" ->
            <<"s", "e", "v", "e", "r", "i", "t", "y">>
      [] s = "status" ->
            <<"s", "t", "a", "t", "u", "s">>
      [] s = "due date" ->
            <<"d", "u", "e", " ", "d", "a", "t", "e">>
      [] s = "due-date_2" ->
            <<"d", "u", "e", "-", "d", "a", "t", "e", "_", "2">>
      [] s = "Open" ->
            <<"O", "p", "e", "n">>
      [] s = "Closed" ->
            <<"C", "l", "o", "s", "e", "d">>
      [] s = "In Progress" ->
            <<"I", "n", " ", "P", "r", "o", "g", "r", "e", "s", "s">>
      [] s = "Server Down" ->
            <<"S", "e", "r", "v", "e", "r", " ", "D", "o", "w", "n">>
      [] s = "Five" ->
            <<"F", "i", "v", "e">>
      [] s = "2024-01-15T10:30:00Z" ->
            <<"2", "0", "2", "4", "-", "0", "1", "-", "1", "5", "T", "1", "0", ":", "3", "0", ":", "0", "0", "Z">>
      [] s = "2024-01-15T10:30:00.250+02:00" ->
            <<"2", "0", "2", "4", "-", "0", "1", "-", "1", "5", "T", "1", "0", ":", "3", "0", ":", "0", "0", ".", "2", "5", "0", "+", "0", "2", ":", "0", "0">>
      [] s = "2024-01-15" ->
            <<"2", "0", "2", "4", "-", "0", "1", "-", "1", "5">>
      [] s = "2024-02-30T10:30:00Z" ->
            <<"2", "0", "2", "4", "-", "0", "2", "-", "3", "0", "T", "1", "0", ":", "3", "0", ":", "0", "0", "Z">>
      [] s = "2024-01-15 10:30" ->
            <<"2", "0", "2", "4", "-", "0", "1", "-", "1", "5", " ", "1", "0", ":", "3", "0">>
      [] s = "Text" ->
            <<"T", "e", "x", "t">>
      [] s = "TextArea" ->
            <<"T", "e", "x", "t", "A", "r", "e", "a">>
      [] s = "Number" ->
            <<"N", "u", "m", "b", "e", "r">>
      [] s = "Boolean" ->
            <<"B", "o", "o", "l", "e", "a", "n">>
      [] s = "DateTime" ->
            <<"D", "a", "t", "e", "T", "i", "m", "e">>
      [] s = "Select" ->
            <<"S", "e", "l", "e", "c", "t">>
      [] s = LongId ->
            LongIdPart \o LongIdPart \o LongIdPart \o LongIdPart \o LongIdPart \o LongIdPart
            \o <<"1", "2", "3", "4", "5">>

\* static ID_REGEX: ^[a-zA-Z0-9_-]+$
ID_REGEX(s) ==
    LET cs == Chars(s)
    IN  /\ Len(cs) >= 1
        /\ \A i \in 1..Len(cs) : cs[i] \in Letters \cup Digits \cup {"_", "-"}

-----------------------------------------------------------------------------
\* Fields (molten-core/src/field.rs)

\* enum FieldType
Text == [kind |-> "Text"]
TextArea == [kind |-> "TextArea"]
Number(min, max) == [kind |-> "Number", min |-> min, max |-> max]
Boolean == [kind |-> "Boolean"]
DateTime == [kind |-> "DateTime"]
Select(options, allow_multiple) ==
    [kind |-> "Select", options |-> options, allow_multiple |-> allow_multiple]

\* The bounds a Number field is declared with (min above max included)
NumberBounds == {None, Some(1), Some(5)}
\* The option lists a Select field is declared with
SelectOptions == {<<"Open", "Closed">>}

FieldTypes ==
    {Text, TextArea, Boolean, DateTime}
    \cup {Number(min, max) : min \in NumberBounds, max \in NumberBounds}
    \cup {Select(options, m) : options \in SelectOptions, m \in BOOLEAN}

FieldIds == {"title", "", "due date", "due-date_2", LongId}
FieldLabels == {"Title", "", LongLabel}
FieldDescriptions == {"Shown next to the input"}

\* FieldBuilder::new
FieldBuilderNew(id, label, field_type) ==
    [id |-> id, label |-> label, field_type |-> field_type,
     required |-> FALSE, description |-> None]

\* FieldBuilder::required
required(b, is_required) == [b EXCEPT !.required = is_required]

\* FieldBuilder::with_description
with_description(b, description) == [b EXCEPT !.description = Some(description)]

\* #[derive(Validate)] on FieldDefinition: a length rule on id, one on label.
ValidateFieldDefinition_id_only(def) ==
    (IF LengthOk(def.id, MinLen, MaxIdLen) THEN {} ELSE {Finding("id", 0, "", "length")})

ValidateFieldDefinition(def) ==
    (IF LengthOk(def.id, MinLen, MaxIdLen) THEN {} ELSE {Finding("id", 0, "", "length")})
    \cup
    (IF LengthOk(def.label, MinLen, MaxNameLen) THEN {} ELSE {Finding("label", 0, "", "length")})

NoField == FieldBuilderNew("", "", Text)

\* impl TryFrom<FieldBuilder> for FieldDefinition (FieldBuilder::build)
TryFromFieldBuilder(b) ==
    LET def == [id |-> b.id, label |-> b.label, field_type |-> b.field_type,
                required |-> b.required, description |-> b.description]
        errors == ValidateFieldDefinition(def)
    IN  IF errors # {} THEN [ok |-> FALSE, def |-> NoField, errors |-> errors]
        ELSE [ok |-> TRUE, def |-> def, errors |-> {}]

\* #[derive(Deserialize)] on FieldBuilder: `required` is #[serde(default)], a
\* missing `description` is None.
FieldBuilderFromJson(json) ==
    [id |-> json.id, label |-> json.label, field_type |-> json.field_type,
     required |-> IF json.has_required THEN json.required ELSE FALSE,
     description |-> IF json.has_description THEN Some(json.description) ELSE None]

FieldJsonInputs ==
    {[id |-> i, label |-> l, field_type |-> t, has_required |-> hr, required |-> hr,
      has_description |-> hd, description |-> d] :
        i \in FieldIds, l \in FieldLabels, t \in FieldTypes,
        hr \in BOOLEAN, hd \in BOOLEAN, d \in FieldDescriptions}

-----------------------------------------------------------------------------
\* Forms (molten-core/src/form.rs)

FormIds == {"ticket", "", "bug report", LongId}
FormNames == {"Ticket", ""}
FormVersions == {1, 2}

\* The FieldDefinitions a form is assembled from: each is the Ok of a
\* FieldBuilder::build.  Two of them carry the same id and differ otherwise.
FormFieldBuilders ==
    {required(FieldBuilderNew("title", "Title", Text), TRUE),
     FieldBuilderNew("title", "Summary", TextArea),
     FieldBuilderNew("severity", "Severity", Number(Some(1), Some(5)))}

FormFields == {TryFromFieldBuilder(b).def : b \in {x \in FormFieldBuilders : TryFromFieldBuilder(x).ok}}

\* fn default_version
default_version == 1

\* FormBuilder::new
FormBuilderNew(id, name) == [id |-> id, name |-> name, version |-> 1, fields |-> <<>>]

\* FormBuilder::version
version(b, v) == [b EXCEPT !.version = v]

\* FormBuilder::add_field
add_field(b, field) == [b EXCEPT !.fields = Append(@, field)]

\* FormBuilder::with_fields
with_fields(b, fields) == [b EXCEPT !.fields = fields]

\* The finding validate_unique_field_ids returns: code duplicate_field_id on
\* `fields`, with the repeated id as its duplicate_id parameter.
DuplicateFieldId(id) ==
    [field |-> "fields", index |-> 0, sub |-> "", code |-> "duplicate_field_id",
     duplicate_id |-> id]

\* fn validate_unique_field_ids: the loop returns at the first field whose id
\* was seen before.
validate_unique_field_ids_adjacent(fields) ==
    LET repeats == {i \in 2..Len(fields) : fields[i].id = fields[i - 1].id}
    IN  IF repeats = {} THEN {} ELSE {DuplicateFieldId(fields[Min(repeats)].id)}

validate_unique_field_ids(fields) ==
    LET repeats == {i \in 1..Len(fields) : \E j \in 1..(i - 1) : fields[j].id = fields[i].id}
    IN  IF repeats = {} THEN {} ELSE {DuplicateFieldId(fields[Min(repeats)].id)}

\* #[derive(Validate)] on FormDefinition: length and regex on id, length on
\* name, nested and custom on fields; every attribute is evaluated and every
\* finding is collected.
ValidateFormDefinition_fail_fast(form) ==
    LET on_id == (IF LengthOk(form.id, MinLen, MaxIdLen) THEN {}
                  ELSE {Finding("id", 0, "", "length")})
                 \cup
                 (IF ID_REGEX(form.id) THEN {} ELSE {Finding("id", 0, "", "regex")})
        on_name == IF LengthOk(form.name, MinLen, MaxNameLen) THEN {}
                   ELSE {Finding("name", 0, "", "length")}
    IN  IF on_id # {} THEN on_id
        ELSE IF on_name # {} THEN on_name
        ELSE validate_unique_field_ids(form.fields)

ValidateFormDefinition_no_regex(form) ==
    (IF LengthOk(form.id, MinLen, MaxIdLen) THEN {} ELSE {Finding("id", 0, "", "length")})
    \cup
    (IF LengthOk(form.name, MinLen, MaxNameLen) THEN {} ELSE {Finding("name", 0, "", "length")})
    \cup
    UNION {{[f EXCEPT !.field = "fields", !.index = i, !.sub = f.field] :
                f \in ValidateFieldDefinition(form.fields[i])} : i \in 1..Len(form.fields)}
    \cup
    validate_unique_field_ids(form.fields)

ValidateFormDefinition(form) ==
    (IF LengthOk(form.id, MinLen, MaxIdLen) THEN {} ELSE {Finding("id", 0, "", "length")})
    \cup
    (IF ID_REGEX(form.id) THEN {} ELSE {Finding("id", 0, "", "regex")})
    \cup
    (IF LengthOk(form.name, MinLen, MaxNameLen) THEN {} ELSE {Finding("name", 0, "", "length")})
    \cup
    UNION {{[f EXCEPT !.field = "fields", !.index = i, !.sub = f.field] :
                f \in ValidateFieldDefinition(form.fields[i])} : i \in 1..Len(form.fields)}
    \cup
    validate_unique_field_ids(form.fields)

NoForm == [id |-> "", name |-> "", version |-> 0, fields |-> <<>>]
NoFormBuilder == FormBuilderNew("", "")

\* impl TryFrom<FormBuilder> for FormDefinition (FormBuilder::build)
TryFromFormBuilder(b) ==
    LET form == [id |-> b.id, name |-> b.name, version |-> b.version, fields |-> b.fields]
        errors == ValidateFormDefinition(form)
    IN  IF errors # {} THEN [ok |-> FALSE, form |-> NoForm, errors |-> errors]
        ELSE [ok |-> TRUE, form |-> form, errors |-> {}]

\* The JSON of one field of a form, as the form's deserializer reads it
FormFieldJsons ==
    {[id |-> b.id, label |-> b.label, field_type |-> b.field_type,
      has_required |-> TRUE, required |-> b.required,
      has_description |-> FALSE, description |-> ""] : b \in FormFieldBuilders}
    \cup
    {[id |-> "", label |-> "Title", field_type |-> Text,
      has_required |-> FALSE, required |-> FALSE,
      has_description |-> FALSE, description |-> ""]}

\* #[serde(try_from = "FormBuilder")]: `fields` is a list of FieldDefinition,
\* each read through FieldBuilder and its TryFrom; the first field that fails
\* ends the deserialization.  `version` defaults to default_version and
\* `fields` to the empty list.
FormFromJson(json) ==
    LET field_results ==
            [i \in 1..Len(json.fields) |-> TryFromFieldBuilder(FieldBuilderFromJson(json.fields[i]))]
        failed == {i \in 1..Len(json.fields) : ~field_results[i].ok}
        b == [id |-> json.id, name |-> json.name,
              version |-> IF json.has_version THEN json.version ELSE default_version,
              fields |-> IF json.has_fields
                         THEN [i \in 1..Len(json.fields) |-> field_results[i].def]
                         ELSE <<>>]
    IN  IF json.has_fields /\ failed # {}
        THEN [builder |-> NoFormBuilder, ok |-> FALSE, form |-> NoForm,
              errors |-> {[f EXCEPT !.field = "fields", !.index = Min(failed), !.sub = f.field] :
                            f \in field_results[Min(failed)].errors}]
        ELSE LET r == TryFromFormBuilder(b)
             IN  [builder |-> b, ok |-> r.ok, form |-> r.form, errors |-> r.errors]

-----------------------------------------------------------------------------
\* enum DocumentValidationError (molten-document/src/error.rs)

MissingRequiredField(field_id) == [kind |-> "MissingRequiredField", field_id |-> field_id]
InvalidType(field_id, expected_type, got_type) ==
    [kind |-> "InvalidType", field_id |-> field_id,
     expected_type |-> expected_type, got_type |-> got_type]
ValueTooLow(field_id, value, min) ==
    [kind |-> "ValueTooLow", field_id |-> field_id, value |-> value, min |-> min]
ValueTooHigh(field_id, value, max) ==
    [kind |-> "ValueTooHigh", field_id |-> field_id, value |-> value, max |-> max]
InvalidSelection(field_id, value, allowed) ==
    [kind |-> "InvalidSelection", field_id |-> field_id, value |-> value, allowed |-> allowed]
InvalidDateFormat(field_id, value) ==
    [kind |-> "InvalidDateFormat", field_id |-> field_id, value |-> value]
FormIdMismatch(doc_form, def_id) ==
    [kind |-> "FormIdMismatch", doc_form |-> doc_form, def_id |-> def_id]

-----------------------------------------------------------------------------
\* Document validation (molten-document/src/validator.rs)

\* Document::get_value: HashMap::get on `data`
get_value(d, field_id) ==
    IF \E e \in d.data : e.key = field_id
    THEN Some((CHOOSE e \in d.data : e.key = field_id).value)
    ELSE None

\* fn get_json_type
get_json_type(v) ==
    CASE v.json = "Null" -> "Null"
      [] v.json = "Bool" -> "Boolean"
      [] v.json = "Number" -> "Number"
      [] v.json = "String" -> "String"
      [] v.json = "Array" -> "Array"
      [] v.json = "Object" -> "Object"

DigitValue(c) ==
    CASE c = "0" -> 0 [] c = "1" -> 1 [] c = "2" -> 2 [] c = "3" -> 3 [] c = "4" -> 4
      [] c = "5" -> 5 [] c = "6" -> 6 [] c = "7" -> 7 [] c = "8" -> 8 [] c = "9" -> 9

DaysInMonth(year, month) ==
    IF month \in {4, 6, 9, 11} THEN 30
    ELSE IF month # 2 THEN 31
    ELSE IF year % 4 = 0 /\ (year % 100 # 0 \/ year % 400 = 0) THEN 29
    ELSE 28

\* chrono::DateTime::parse_from_rfc3339(s).is_ok(): date "T" time, an optional
\* fraction of a second, then "Z" or a numeric offset; the fields must name
\* a day of the calendar and a time of the day.
parse_from_rfc3339(s) ==
    LET cs == Chars(s)
        n == Len(cs)
        digit(i) == i <= n /\ cs[i] \in Digits
        two(i) == DigitValue(cs[i]) * 10 + DigitValue(cs[i + 1])
        year == two(1) * 100 + two(3)
        fraction == n >= 20 /\ cs[20] = "."
        fraction_digits == {k \in 21..n : \A i \in 21..k : cs[i] \in Digits}
        \* where the offset starts
        off == IF fraction THEN 21 + Cardinality(fraction_digits) ELSE 20
    IN  /\ n >= 20
        /\ \A i \in {1, 2, 3, 4, 6, 7, 9, 10, 12, 13, 15, 16, 18, 19} : digit(i)
        /\ cs[5] = "-" /\ cs[8] = "-"
        /\ cs[11] \in {"T", "t"}
        /\ cs[14] = ":" /\ cs[17] = ":"
        /\ fraction => fraction_digits # {}
        /\ off <= n
        /\ \/ cs[off] \in {"Z", "z"} /\ n = off
           \/ /\ cs[off] \in {"+", "-"}
              /\ n = off + 5
              /\ digit(off + 1) /\ digit(off + 2) /\ cs[off + 3] = ":"
              /\ digit(off + 4) /\ digit(off + 5)
              /\ two(off + 1) <= 23 /\ two(off + 4) <= 59
        /\ two(6) \in 1..12
        /\ two(9) \in 1..DaysInMonth(year, two(6))
        /\ two(12) <= 23 /\ two(15) <= 59 /\ two(18) <= 60

\* The sequence holds the string s (Vec::contains)
contains(options, s) == \E i \in 1..Len(options) : options[i] = s

\* fn validate_value, FieldType::Text | FieldType::TextArea arm
validate_text(value, field) ==
    IF value.json # "String"
    THEN Err(InvalidType(field.id, "String", get_json_type(value)))
    ELSE Ok

\* fn validate_value, FieldType::Number arm
validate_number_exclusive(value, field) ==
    LET min == field.field_type.min
        max == field.field_type.max
    IN  IF value.json # "Number"
        THEN Err(InvalidType(field.id, "Number", get_json_type(value)))
        ELSE IF min.some /\ value.n <= min.val
        THEN Err(ValueTooLow(field.id, value.n, min.val))
        ELSE IF max.some /\ value.n >= max.val
        THEN Err(ValueTooHigh(field.id, value.n, max.val))
        ELSE Ok

\* Variant: the maximum is compared before the minimum.
validate_number_max_first(value, field) ==
    LET min == field.field_type.min
        max == field.field_type.max
    IN  IF value.json # "Number"
        THEN Err(InvalidType(field.id, "Number", get_json_type(value)))
        ELSE IF max.some /\ value.n > max.val
        THEN Err(ValueTooHigh(field.id, value.n, max.val))
        ELSE IF min.some /\ value.n < min.val
        THEN Err(ValueTooLow(field.id, value.n, min.val))
        ELSE Ok

validate_number(value, field) ==
    LET min == field.field_type.min
        max == field.field_type.max
    IN  IF value.json # "Number"
        THEN Err(InvalidType(field.id, "Number", get_json_type(value)))
        ELSE IF min.some /\ value.n < min.val
        THEN Err(ValueTooLow(field.id, value.n, min.val))
        ELSE IF max.some /\ value.n > max.val
        THEN Err(ValueTooHigh(field.id, value.n, max.val))
        ELSE Ok

\* fn validate_value, FieldType::Boolean arm
validate_boolean(value, field) ==
    IF value.json # "Bool"
    THEN Err(InvalidType(field.id, "Boolean", get_json_type(value)))
    ELSE Ok

\* fn validate_value, FieldType::Select arm with allow_multiple, the loop over
\* the array: it returns at the first item that is no string or no option.
validate_items_first_only(field_id, options, items) ==
    LET bad == {i \in 1..Len(items) :
                    i = 1 /\ (items[i].json # "String" \/ ~contains(options, items[i].s))}
        item == items[Min(bad)]
    IN  IF bad = {} THEN Ok
        ELSE IF item.json # "String"
        THEN Err(InvalidType(field_id, "String", get_json_type(item)))
        ELSE Err(InvalidSelection(field_id, item.s, options))

validate_items(field_id, options, items) ==
    LET bad == {i \in 1..Len(items) :
                    items[i].json # "String" \/ ~contains(options, items[i].s)}
        item == items[Min(bad)]
    IN  IF bad = {} THEN Ok
        ELSE IF item.json # "String"
        THEN Err(InvalidType(field_id, "String", get_json_type(item)))
        ELSE Err(InvalidSelection(field_id, item.s, options))

\* fn validate_value, FieldType::Select arm
validate_select(value, field) ==
    LET options == field.field_type.options
    IN  IF field.field_type.allow_multiple
        THEN IF value.json # "Array"
             THEN Err(InvalidType(field.id, "Array", get_json_type(value)))
             ELSE validate_items(field.id, options, value.items)
        ELSE IF value.json # "String"
             THEN Err(InvalidType(field.id, "String", get_json_type(value)))
             ELSE IF ~contains(options, value.s)
             THEN Err(InvalidSelection(field.id, value.s, options))
             ELSE Ok

\* fn validate_value, FieldType::DateTime arm
validate_date_time_any_string(value, field) ==
    IF value.json # "String"
    THEN Err(InvalidType(field.id, "String (ISO 8601)", get_json_type(value)))
    ELSE Ok

validate_date_time(value, field) ==
    IF value.json # "String"
    THEN Err(InvalidType(field.id, "String (ISO 8601)", get_json_type(value)))
    ELSE IF ~parse_from_rfc3339(value.s)
    THEN Err(InvalidDateFormat(field.id, value.s))
    ELSE Ok

\* fn validate_value(value, field): match field.field_type()
validate_value(value, field) ==
    CASE field.field_type.kind \in {"Text", "TextArea"} -> validate_text(value, field)
      [] field.field_type.kind = "Number" -> validate_number(value, field)
      [] field.field_type.kind = "Boolean" -> validate_boolean(value, field)
      [] field.field_type.kind = "Select" -> validate_select(value, field)
      [] field.field_type.kind = "DateTime" -> validate_date_time(value, field)

\* fn validate_document, the body of the loop: what one declared field adds
\* to `errors`.
validate_field_absent_only(d, field_def) ==
    LET value == get_value(d, field_def.id)
    IN  IF field_def.required /\ ~value.some
        THEN <<MissingRequiredField(field_def.id)>>
        ELSE IF value.some /\ value.val # JsonNull
        THEN LET r == validate_value(value.val, field_def)
             IN  IF r.ok THEN <<>> ELSE <<r.err>>
        ELSE <<>>

validate_field(d, field_def) ==
    LET value == get_value(d, field_def.id)
    IN  IF field_def.required /\ (~value.some \/ value.val = JsonNull)
        THEN <<MissingRequiredField(field_def.id)>>
        ELSE IF value.some /\ value.val # JsonNull
        THEN LET r == validate_value(value.val, field_def)
             IN  IF r.ok THEN <<>> ELSE <<r.err>>
        ELSE <<>>

\* Variant: the loop ends at the first field that has an error.
RECURSIVE validate_fields_first_failure(_, _, _)
validate_fields_first_failure(d, fields, n) ==
    IF n = 0 THEN <<>>
    ELSE LET earlier == validate_fields_first_failure(d, fields, n - 1)
         IN  IF earlier # <<>> THEN earlier ELSE validate_field(d, fields[n])

\* Variant: each error is put in front of the errors found before it.
RECURSIVE validate_fields_front(_, _, _)
validate_fields_front(d, fields, n) ==
    IF n = 0 THEN <<>>
    ELSE validate_field(d, fields[n]) \o validate_fields_front(d, fields, n - 1)

\* The errors of the first n declared fields, in the order of the fields
RECURSIVE validate_fields(_, _, _)
validate_fields(d, fields, n) ==
    IF n = 0 THEN <<>>
    ELSE validate_fields(d, fields, n - 1) \o validate_field(d, fields[n])

\* pub fn validate_document(doc, form) -> Result<(), Vec<DocumentValidationError>>

\* Variant: the fields are checked after a form-id mismatch as well.
validate_document_no_guard(d, form) ==
    LET mismatch == IF d.form_id # form.id
                    THEN <<FormIdMismatch(d.form_id, form.id)>> ELSE <<>>
        errors == mismatch \o validate_fields(d, form.fields, Len(form.fields))
    IN  IF errors = <<>> THEN [ok |-> TRUE, errors |-> <<>>]
        ELSE [ok |-> FALSE, errors |-> errors]

\* Variant: a key of `data` that no field declares is an error.
validate_document_closed(d, form) ==
    LET declared == {form.fields[i].id : i \in 1..Len(form.fields)}
        undeclared == {e.key : e \in d.data} \ declared
    IN  IF d.form_id # form.id
        THEN [ok |-> FALSE, errors |-> <<FormIdMismatch(d.form_id, form.id)>>]
        ELSE LET errors == validate_fields(d, form.fields, Len(form.fields))
             IN  IF errors = <<>> /\ undeclared = {} THEN [ok |-> TRUE, errors |-> <<>>]
                 ELSE [ok |-> FALSE, errors |-> errors]

\* Variant: `errors` outlives the call, so a call starts from the errors of
\* the call before it.
validate_document_accumulating(d, form) ==
    LET kept == IF vcall.called THEN vcall.result.errors ELSE <<>>
    IN  IF d.form_id # form.id
        THEN [ok |-> FALSE, errors |-> kept \o <<FormIdMismatch(d.form_id, form.id)>>]
        ELSE LET errors == kept \o validate_fields(d, form.fields, Len(form.fields))
             IN  IF errors = <<>> THEN [ok |-> TRUE, errors |-> <<>>]
                 ELSE [ok |-> FALSE, errors |-> errors]

\* Variant: `errors` is one list for all callers, so a call starts from the
\* errors another caller's call has left.
validate_document_shared_errors(d, form) ==
    LET others == {c \in DOMAIN frames :
                      frames[c].call.called /\ frames[c].call.op = "validate_document"}
        kept == IF others = {} THEN <<>>
                ELSE frames[CHOOSE c \in others : TRUE].call.result.errors
    IN  IF d.form_id # form.id
        THEN [ok |-> FALSE, errors |-> kept \o <<FormIdMismatch(d.form_id, form.id)>>]
        ELSE LET errors == kept \o validate_fields(d, form.fields, Len(form.fields))
             IN  IF errors = <<>> THEN [ok |-> TRUE, errors |-> <<>>]
                 ELSE [ok |-> FALSE, errors |-> errors]

validate_document(d, form) ==
    IF d.form_id # form.id
    THEN [ok |-> FALSE, errors |-> <<FormIdMismatch(d.form_id, form.id)>>]
    ELSE LET errors == validate_fields(d, form.fields, Len(form.fields))
         IN  IF errors = <<>> THEN [ok |-> TRUE, errors |-> <<>>]
             ELSE [ok |-> FALSE, errors |-> errors]

-----------------------------------------------------------------------------
\* FieldType through serde_json (molten-core/src/field.rs, the derives of
\* enum FieldType): #[serde(tag = "kind", content = "config",
\* rename_all = "snake_case")]

\* A JSON object with its members
JsonMap(entries) == [json |-> "Object", entries |-> entries]

\* Option<f64> holding a value that is no finite number
SomeNaN == [some |-> TRUE, nan |-> TRUE]
SomeInfinity == [some |-> TRUE, infinite |-> TRUE]

\* The bounds a caller can put into FieldType::Number
FloatBounds == NumberBounds \cup {SomeNaN, SomeInfinity}
\* The option lists of the serialized Select fields
SerdeOptions == SeqsUpTo({"Open", "Closed"}, MaxItems)

\* Every FieldType value the round trip is tried on
SerdeFieldTypes ==
    {Text, TextArea, Boolean, DateTime}
    \cup {Number(min, max) : min \in FloatBounds, max \in FloatBounds}
    \cup {Select(options, m) : options \in SerdeOptions, m \in BOOLEAN}

Uppercase ==
    <<"A", "B", "C", "D", "E", "F", "G", "H", "I", "J", "K", "L", "M",
      "N", "O", "P", "Q", "R", "S", "T", "U", "V", "W", "X", "Y", "Z">>
Lowercase ==
    <<"a", "b", "c", "d", "e", "f", "g", "h", "i", "j", "k", "l", "m",
      "n", "o", "p", "q", "r", "s", "t", "u", "v", "w", "x", "y", "z">>

\* rename_all = "snake_case" on a variant name: every upper-case letter
\* becomes its lower-case letter, with "_" before it unless it is the first.
RECURSIVE snake_case_from(_, _)
snake_case_from(cs, i) ==
    IF i > Len(cs) THEN ""
    ELSE LET upper == {k \in 1..Len(Uppercase) : Uppercase[k] = cs[i]}
         IN  (IF upper = {} THEN cs[i]
              ELSE (IF i > 1 THEN "_" ELSE "") \o Lowercase[Min(upper)])
             \o snake_case_from(cs, i + 1)

snake_case(name) == snake_case_from(Chars(name), 1)

\* The variants of enum FieldType
FieldTypeVariants == {"Text", "TextArea", "Number", "Boolean", "DateTime", "Select"}

\* Serialize for Option<f64> into a serde_json::Value: None is null, a finite
\* number is a JSON number, and a NaN or an infinity, which JSON cannot
\* write, is null as well.
serialize_bound(o) ==
    IF o.some /\ "val" \in DOMAIN o THEN JsonNumber(o.val) ELSE JsonNull

\* serde_json::to_value(&field_type): the tag under "kind" and, for a variant
\* with fields, the fields as an object under "config".

\* Variant: a unit variant gets a null "config".
to_value_null_config(t) ==
    LET kind == [key |-> "kind", value |-> JsonString(snake_case(t.kind))]
        config(entries) == [key |-> "config", value |-> JsonMap(entries)]
    IN  CASE t.kind = "Number" ->
                JsonMap({kind, config({[key |-> "min", value |-> serialize_bound(t.min)],
                                       [key |-> "max", value |-> serialize_bound(t.max)]})})
          [] t.kind = "Select" ->
                JsonMap({kind,
                         config({[key |-> "options",
                                  value |-> JsonArray([i \in 1..Len(t.options) |->
                                                          JsonString(t.options[i])])],
                                 [key |-> "allow_multiple",
                                  value |-> JsonBool(t.allow_multiple)]})})
          [] OTHER -> JsonMap({kind, [key |-> "config", value |-> JsonNull]})

to_value(t) ==
    LET kind == [key |-> "kind", value |-> JsonString(snake_case(t.kind))]
        config(entries) == [key |-> "config", value |-> JsonMap(entries)]
    IN  CASE t.kind = "Number" ->
                JsonMap({kind, config({[key |-> "min", value |-> serialize_bound(t.min)],
                                       [key |-> "max", value |-> serialize_bound(t.max)]})})
          [] t.kind = "Select" ->
                JsonMap({kind,
                         config({[key |-> "options",
                                  value |-> JsonArray([i \in 1..Len(t.options) |->
                                                          JsonString(t.options[i])])],
                                 [key |-> "allow_multiple",
                                  value |-> JsonBool(t.allow_multiple)]})})
          [] OTHER -> JsonMap({kind})

\* The member of a JSON object under a key
member(object, key) ==
    IF \E e \in object.entries : e.key = key
    THEN Some((CHOOSE e \in object.entries : e.key = key).value)
    ELSE None

\* Deserialize for a #[serde(default)] Option<f64>: a missing member and null
\* are None, a number is Some, anything else is an error.
deserialize_bound(m) ==
    IF ~m.some \/ m.val = JsonNull THEN [ok |-> TRUE, value |-> None]
    ELSE IF m.val.json = "Number" THEN [ok |-> TRUE, value |-> Some(m.val.n)]
    ELSE [ok |-> FALSE]

\* serde_json::from_value::<FieldType>(json): "kind" names the variant by its
\* snake_case name; Number and Select read their fields from "config", where
\* min, max and allow_multiple may be missing and options may not.
from_value(json) ==
    LET kind == member(json, "kind")
        config == member(json, "config")
        variants == IF kind.some /\ kind.val.json = "String"
                    THEN {v \in FieldTypeVariants : snake_case(v) = kind.val.s}
                    ELSE {}
        variant == CHOOSE v \in variants : TRUE
        fields == config.some /\ config.val.json = "Object"
    IN  IF variants = {} THEN [ok |-> FALSE]
        ELSE IF variant = "Number"
        THEN IF ~fields THEN [ok |-> FALSE]
             ELSE LET min == deserialize_bound(member(config.val, "min"))
                      max == deserialize_bound(member(config.val, "max"))
                  IN  IF min.ok /\ max.ok
                      THEN [ok |-> TRUE, value |-> Number(min.value, max.value)]
                      ELSE [ok |-> FALSE]
        ELSE IF variant = "Select"
        THEN IF ~fields THEN [ok |-> FALSE]
             ELSE LET options == member(config.val, "options")
                      multiple == member(config.val, "allow_multiple")
                  IN  IF /\ options.some /\ options.val.json = "Array"
                         /\ \A i \in 1..Len(options.val.items) :
                               options.val.items[i].json = "String"
                         /\ multiple.some => multiple.val.json = "Bool"
                      THEN [ok |-> TRUE,
                            value |-> Select([i \in 1..Len(options.val.items) |->
                                                 options.val.items[i].s],
                                             IF multiple.some THEN multiple.val.b ELSE FALSE)]
                      ELSE [ok |-> FALSE]
        ELSE [ok |-> TRUE, value |-> [kind |-> variant]]

\* #[derive(PartialEq)] on FieldType: the variants and their fields are
\* compared; a NaN bound equals nothing, itself included.
eq(a, b) ==
    /\ a = b
    /\ a.kind = "Number" => a.min # SomeNaN /\ a.max # SomeNaN

-----------------------------------------------------------------------------
\* The document service over the repositories
\* (molten-service/src/services/document.rs, molten-storage-seaorm/src/repo)

\* enum ServiceError
FormNotFound(id) == [kind |-> "FormNotFound", id |-> id]
WorkflowNotFound(id) == [kind |-> "WorkflowNotFound", id |-> id]
DocumentValidationErrors(errors) == [kind |-> "DocumentValidationErrors", errors |-> errors]
WorkflowRuleViolation(e) == [kind |-> "WorkflowRuleViolation", error |-> e]
Internal == [kind |-> "Internal"]

\* The tables: the definitions by id, the rows of the documents
EmptyDb == [forms |-> {}, workflows |-> {}, documents |-> {}]

\* FormRepository::save / WorkflowRepository::save: insert, or on a conflict
\* on the id replace the row of that id
save(table, def) == {x \in table : x.id # def.id} \cup {def}

\* FormRepository::find_by_id / WorkflowRepository::find_by_id
find_definition(table, id) ==
    IF \E x \in table : x.id = id THEN Some(CHOOSE x \in table : x.id = id) ELSE None

\* DocumentRepository::create: domain model -> row, inserted
create(documents, d) ==
    documents \cup
        {[id |-> d.id, form_id |-> d.form_id, workflow_id |-> d.workflow_id,
          current_phase |-> d.current_phase, data |-> d.data,
          created_at |-> d.created_at, updated_at |-> d.updated_at]}

\* DocumentRepository::update: the row of the document's id gets the
\* document's current_phase and data and the time of the call; the other
\* columns are not touched.  The row is not read before it is written.

\* Variant: the row is written only if it was not updated since the caller
\* loaded the document.
update_if_unchanged(documents, d, now) ==
    IF \E r \in documents : r.id = d.id /\ r.updated_at = d.updated_at
    THEN [ok |-> TRUE,
          documents |-> {IF r.id = d.id
                         THEN [r EXCEPT !.current_phase = d.current_phase,
                                        !.data = d.data, !.updated_at = now]
                         ELSE r : r \in documents}]
    ELSE [ok |-> FALSE, documents |-> documents]

update(documents, d, now) ==
    IF \E r \in documents : r.id = d.id
    THEN [ok |-> TRUE,
          documents |-> {IF r.id = d.id
                         THEN [r EXCEPT !.current_phase = d.current_phase,
                                        !.data = d.data, !.updated_at = now]
                         ELSE r : r \in documents}]
    ELSE [ok |-> FALSE, documents |-> documents]

\* DocumentService::create_document(form_id, workflow_id, data).  doc_id is
\* the Uuid::new_v4() of the call and `now` its clock; `fault` names the table
\* whose query fails with a database error, if any does.

\* Variant: the document is inserted before its data is validated.
create_document_insert_first(tables, form_id, workflow_id, data, doc_id, now, fault) ==
    LET form == find_definition(tables.forms, form_id)
        workflow == find_definition(tables.workflows, workflow_id)
        start_phase == get_start_phase(workflow.val)
        d == [id |-> doc_id, form_id |-> form_id, workflow_id |-> workflow_id,
              current_phase |-> start_phase.val.id, data |-> data,
              created_at |-> now, updated_at |-> now]
        inserted == [tables EXCEPT !.documents = create(@, d)]
        validation == validate_document(d, form.val)
    IN  IF fault = "forms" THEN [db |-> tables, result |-> Err(Internal)]
        ELSE IF ~form.some THEN [db |-> tables, result |-> Err(FormNotFound(form_id))]
        ELSE IF fault = "workflows" THEN [db |-> tables, result |-> Err(Internal)]
        ELSE IF ~workflow.some
        THEN [db |-> tables, result |-> Err(WorkflowNotFound(workflow_id))]
        ELSE IF ~start_phase.some
        THEN [db |-> tables,
              result |-> Err(WorkflowRuleViolation(UnknownPhase("No start phase defined")))]
        ELSE IF fault = "documents" THEN [db |-> tables, result |-> Err(Internal)]
        ELSE IF ~validation.ok
        THEN [db |-> inserted, result |-> Err(DocumentValidationErrors(validation.errors))]
        ELSE [db |-> inserted, result |-> [ok |-> TRUE, doc |-> d]]

create_document(tables, form_id, workflow_id, data, doc_id, now, fault) ==
    \* 1. Fetch Form Definition
    LET form == find_definition(tables.forms, form_id)
    \* 2. Fetch Workflow Definition
        workflow == find_definition(tables.workflows, workflow_id)
    \* 3. Determine Start Phase
        start_phase == get_start_phase(workflow.val)
    \* 4. Create Document Object
        d == [id |-> doc_id, form_id |-> form_id, workflow_id |-> workflow_id,
              current_phase |-> start_phase.val.id, data |-> data,
              created_at |-> now, updated_at |-> now]
    \* 5. Validate Data
        validation == validate_document(d, form.val)
    IN  IF fault = "forms" THEN [db |-> tables, result |-> Err(Internal)]
        ELSE IF ~form.some THEN [db |-> tables, result |-> Err(FormNotFound(form_id))]
        ELSE IF fault = "workflows" THEN [db |-> tables, result |-> Err(Internal)]
        ELSE IF ~workflow.some
        THEN [db |-> tables, result |-> Err(WorkflowNotFound(workflow_id))]
        ELSE IF ~start_phase.some
        THEN [db |-> tables,
              result |-> Err(WorkflowRuleViolation(UnknownPhase("No start phase defined")))]
        ELSE IF ~validation.ok
        THEN [db |-> tables, result |-> Err(DocumentValidationErrors(validation.errors))]
    \* 6. Persist: DocumentRepository::create inserts the row
        ELSE IF fault = "documents" THEN [db |-> tables, result |-> Err(Internal)]
        ELSE [db |-> [tables EXCEPT !.documents = create(@, d)],
              result |-> [ok |-> TRUE, doc |-> d]]

-----------------------------------------------------------------------------
\* The state machine

NoBuilder == WorkflowBuilderNew("", "")
NoResult == [ok |-> FALSE, errors |-> {}]
NoTrail == [created |-> FALSE, succeeded |-> FALSE, entered |-> ""]
NoSerde == [pc |-> "start"]
Callers == {"first", "second"}
NoDefinitions == [form |-> NoForm, workflow |-> NoWorkflow]
NoCall == [called |-> FALSE]
Idle == [pc |-> "idle", doc |-> NoDocument, call |-> NoCall]

\* The phase ids a caller asks for: the declared ones and one no workflow declares.
Targets == PhaseIds \cup {"archived"}

Init ==
    /\ pc = "start"
    /\ builder = NoBuilder
    /\ wf = NoWorkflow
    /\ built = NoResult
    /\ doc = NoDocument
    /\ call = NoCall
    /\ field_pc = "start"
    /\ field_builder = NoField
    /\ field_built = [ok |-> FALSE, def |-> NoField, errors |-> {}]
    /\ form_pc = "start"
    /\ form_builder = NoFormBuilder
    /\ form_built = [via |-> "", ok |-> FALSE, form |-> NoForm, errors |-> {}]
    /\ vform = NoForm
    /\ vdoc = NoDocument
    /\ vcall = NoCall
    /\ trail = NoTrail
    /\ ser = NoSerde
    /\ db = EmptyDb
    /\ created = NoCall
    /\ shared = NoDefinitions
    /\ published = NoDefinitions
    /\ frames = [c \in Callers |-> Idle]
    /\ applied = NoCall

\* WorkflowBuilder::new(id, name)
New(id, name) ==
    /\ pc = "start"
    /\ builder' = WorkflowBuilderNew(id, name)
    /\ pc' = "building"
    /\ UNCHANGED <<wf, built, doc, call, fieldVars, formVars, validatorVars, lifecycleVars, serdeVars, serviceVars, callerVars>>

\* builder.add_phase(phase)
AddPhase(phase) ==
    /\ pc = "building"
    /\ Len(builder.phases) < MaxPhases
    /\ builder' = add_phase(builder, phase)
    /\ UNCHANGED <<pc, wf, built, doc, call, fieldVars, formVars, validatorVars, lifecycleVars, serdeVars, serviceVars, callerVars>>

\* builder.add_transition(transition)
AddTransition(t) ==
    /\ pc = "building"
    /\ Len(builder.transitions) < MaxTransitions
    /\ builder' = add_transition(builder, t)
    /\ UNCHANGED <<pc, wf, built, doc, call, fieldVars, formVars, validatorVars, lifecycleVars, serdeVars, serviceVars, callerVars>>

\* builder.build()
Build ==
    /\ pc = "building"
    /\ LET r == TryFrom(builder)
       IN  /\ pc' = IF r.ok THEN "built" ELSE "rejected"
           /\ wf' = r.wf
           /\ built' = [ok |-> r.ok, errors |-> r.errors]
    /\ UNCHANGED <<builder, doc, call, fieldVars, formVars, validatorVars, lifecycleVars, serdeVars, serviceVars, callerVars>>

\* serde_json::from_str::<WorkflowDefinition>(json), for any JSON input
Deserialize ==
    /\ pc = "start"
    /\ \E json \in JsonInputs :
          LET b == FromJson(json)
              r == TryFrom(b)
          IN  /\ builder' = b
              /\ pc' = IF r.ok THEN "built" ELSE "rejected"
              /\ wf' = r.wf
              /\ built' = [ok |-> r.ok, errors |-> r.errors]
    /\ UNCHANGED <<doc, call, fieldVars, formVars, validatorVars, lifecycleVars, serdeVars, serviceVars, callerVars>>

\* DocumentRepository::find_by_id returns the stored row as a Document.  The
\* caller loads its document once; Rows holds every phase a later load could show.
LoadDocument(m) ==
    /\ pc = "built"
    /\ doc = NoDocument
    /\ doc' = find_by_id(m)
    /\ call' = NoCall
    /\ UNCHANGED <<pc, builder, wf, built, fieldVars, formVars, validatorVars, lifecycleVars, serdeVars, serviceVars, callerVars>>

\* transition(&mut doc, &wf, target)
Transition(target) ==
    /\ pc = "built"
    /\ doc # NoDocument
    /\ LET out == transition(doc, wf, target)
       IN  /\ doc' = out.doc
           /\ call' = [called |-> TRUE, before |-> doc, workflow |-> wf,
                       target |-> target, result |-> out.result]
    /\ UNCHANGED <<pc, builder, wf, built, fieldVars, formVars, validatorVars, lifecycleVars, serdeVars, serviceVars, callerVars>>

Next ==
    \/ \E id \in WorkflowIds, name \in WorkflowNames : New(id, name)
    \/ \E phase \in Phases : AddPhase(phase)
    \/ \E t \in Transitions : AddTransition(t)
    \/ Build
    \/ Deserialize
    \/ \E m \in Rows : LoadDocument(m)
    \/ \E target \in Targets : Transition(target)

Spec == Init /\ [][Next]_vars

-----------------------------------------------------------------------------
\* The life of one new document under one workflow

\* The rows of documents that entered no phase yet
NewRows == {m \in Rows : m.current_phase = ""}

\* The phase ids a caller asks for, the empty one among them
LifecycleTargets == Targets \cup {""}

\* DocumentRepository::find_by_id of a document that entered no phase yet
LoadNewDocument(m) ==
    /\ pc = "built"
    /\ doc = NoDocument
    /\ doc' = find_by_id(m)
    /\ call' = NoCall
    /\ trail' = [created |-> TRUE, succeeded |-> FALSE, entered |-> ""]
    /\ UNCHANGED <<pc, builder, wf, built, fieldVars, formVars, validatorVars, serdeVars, serviceVars, callerVars>>

\* transition(&mut doc, &wf, target), one call after the other by the one
\* caller that holds the document; `trail` keeps whether a call succeeded and
\* the target of the first that did.
NextTransition(target) ==
    /\ pc = "built"
    /\ trail.created
    /\ LET out == transition(doc, wf, target)
       IN  /\ doc' = out.doc
           /\ call' = [called |-> TRUE, before |-> doc, workflow |-> wf,
                       target |-> target, result |-> out.result]
           /\ trail' = IF out.result.ok /\ ~trail.succeeded
                       THEN [trail EXCEPT !.succeeded = TRUE, !.entered = target]
                       ELSE trail
    /\ UNCHANGED <<pc, builder, wf, built, fieldVars, formVars, validatorVars, serdeVars, serviceVars, callerVars>>

NextLifecycle ==
    \/ Deserialize
    \/ \E m \in NewRows : LoadNewDocument(m)
    \/ \E target \in LifecycleTargets : NextTransition(target)

SpecLifecycle == Init /\ [][NextLifecycle]_vars

-----------------------------------------------------------------------------
\* The field builder's state machine

\* FieldBuilder::new(id, label, field_type)
FieldNew(id, label, field_type) ==
    /\ field_pc = "start"
    /\ field_builder' = FieldBuilderNew(id, label, field_type)
    /\ field_pc' = "building"
    /\ UNCHANGED <<field_built, workflowVars, formVars, validatorVars, lifecycleVars, serdeVars, serviceVars, callerVars>>

\* builder.required(is_required)
FieldRequired(is_required) ==
    /\ field_pc = "building"
    /\ field_builder' = required(field_builder, is_required)
    /\ UNCHANGED <<field_pc, field_built, workflowVars, formVars, validatorVars, lifecycleVars, serdeVars, serviceVars, callerVars>>

\* builder.with_description(description)
FieldWithDescription(description) ==
    /\ field_pc = "building"
    /\ field_builder' = with_description(field_builder, description)
    /\ UNCHANGED <<field_pc, field_built, workflowVars, formVars, validatorVars, lifecycleVars, serdeVars, serviceVars, callerVars>>

\* builder.build()
FieldBuild ==
    /\ field_pc = "building"
    /\ LET r == TryFromFieldBuilder(field_builder)
       IN  /\ field_pc' = IF r.ok THEN "built" ELSE "rejected"
           /\ field_built' = r
    /\ UNCHANGED <<field_builder, workflowVars, formVars, validatorVars, lifecycleVars, serdeVars, serviceVars, callerVars>>

\* serde_json::from_str::<FieldDefinition>(json), for any JSON input
FieldDeserialize ==
    /\ field_pc = "start"
    /\ \E json \in FieldJsonInputs :
          LET b == FieldBuilderFromJson(json)
              r == TryFromFieldBuilder(b)
          IN  /\ field_builder' = b
              /\ field_pc' = IF r.ok THEN "built" ELSE "rejected"
              /\ field_built' = r
    /\ UNCHANGED <<workflowVars, formVars, validatorVars, lifecycleVars, serdeVars, serviceVars, callerVars>>

NextField ==
    \/ \E id \in FieldIds, label \in FieldLabels, t \in FieldTypes : FieldNew(id, label, t)
    \/ \E r \in BOOLEAN : FieldRequired(r)
    \/ \E d \in FieldDescriptions : FieldWithDescription(d)
    \/ FieldBuild
    \/ FieldDeserialize

SpecField == Init /\ [][NextField]_vars

-----------------------------------------------------------------------------
\* The form builder's state machine

FormJsonInputs ==
    {[id |-> i, name |-> n, has_version |-> hv, version |-> 2,
      has_fields |-> TRUE, fields |-> fs] :
        i \in FormIds, n \in FormNames, hv \in BOOLEAN,
        fs \in SeqsUpTo(FormFieldJsons, MaxFields)}
    \cup
    {[id |-> i, name |-> n, has_version |-> FALSE, version |-> 2,
      has_fields |-> FALSE, fields |-> <<>>] :
        i \in FormIds, n \in FormNames}

\* FormBuilder::new(id, name)
FormNew(id, name) ==
    /\ form_pc = "start"
    /\ form_builder' = FormBuilderNew(id, name)
    /\ form_pc' = "building"
    /\ UNCHANGED <<form_built, workflowVars, fieldVars, validatorVars, lifecycleVars, serdeVars, serviceVars, callerVars>>

\* builder.version(v)
FormVersion(v) ==
    /\ form_pc = "building"
    /\ form_builder' = version(form_builder, v)
    /\ UNCHANGED <<form_pc, form_built, workflowVars, fieldVars, validatorVars, lifecycleVars, serdeVars, serviceVars, callerVars>>

\* builder.add_field(field)
AddField(field) ==
    /\ form_pc = "building"
    /\ Len(form_builder.fields) < MaxFields
    /\ form_builder' = add_field(form_builder, field)
    /\ UNCHANGED <<form_pc, form_built, workflowVars, fieldVars, validatorVars, lifecycleVars, serdeVars, serviceVars, callerVars>>

\* builder.with_fields(fields)
WithFields(fields) ==
    /\ form_pc = "building"
    /\ form_builder' = with_fields(form_builder, fields)
    /\ UNCHANGED <<form_pc, form_built, workflowVars, fieldVars, validatorVars, lifecycleVars, serdeVars, serviceVars, callerVars>>

\* builder.build()
FormBuild ==
    /\ form_pc = "building"
    /\ LET r == TryFromFormBuilder(form_builder)
       IN  /\ form_pc' = IF r.ok THEN "built" ELSE "rejected"
           /\ form_built' = [via |-> "build", ok |-> r.ok, form |-> r.form, errors |-> r.errors]
    /\ UNCHANGED <<form_builder, workflowVars, fieldVars, validatorVars, lifecycleVars, serdeVars, serviceVars, callerVars>>

\* serde_json::from_str::<FormDefinition>(json), for any JSON input
FormDeserialize ==
    /\ form_pc = "start"
    /\ \E json \in FormJsonInputs :
          LET r == FormFromJson(json)
          IN  /\ form_builder' = r.builder
              /\ form_pc' = IF r.ok THEN "built" ELSE "rejected"
              /\ form_built' = [via |-> "deserialize", ok |-> r.ok, form |-> r.form,
                                errors |-> r.errors]
    /\ UNCHANGED <<workflowVars, fieldVars, validatorVars, lifecycleVars, serdeVars, serviceVars, callerVars>>

NextForm ==
    \/ \E id \in FormIds, name \in FormNames : FormNew(id, name)
    \/ \E v \in FormVersions : FormVersion(v)
    \/ \E field \in FormFields : AddField(field)
    \/ \E fields \in SeqsUpTo(FormFields, MaxFields) : WithFields(fields)
    \/ FormBuild
    \/ FormDeserialize

SpecForm == Init /\ [][NextForm]_vars

-----------------------------------------------------------------------------
\* The document validator's state machine

\* The JSON values a document holds under a key
JsonItems == {JsonString("Open"), JsonString("In Progress"), JsonNumber(1)}
JsonStrings ==
    {"", "Open", "In Progress", "2024-01-15T10:30:00Z", "2024-01-15T10:30:00.250+02:00",
     "2024-01-15", "2024-02-30T10:30:00Z"}
JsonNumbers == {0, 1, 3, 5, 6}
JsonValues ==
    {JsonNull, JsonBool(TRUE), JsonObject}
    \cup {JsonNumber(n) : n \in JsonNumbers}
    \cup {JsonString(s) : s \in JsonStrings}
    \cup {JsonArray(items) : items \in SeqsUpTo(JsonItems, MaxItems)}

\* The values the documents of a form of several fields hold
TestValues ==
    {JsonNull, JsonString("Server Down"), JsonString("Open"), JsonString("In Progress"),
     JsonString("Five"), JsonNumber(3), JsonNumber(10)}

\* One-field forms over every field type, required or not
ProbeFormBuilders ==
    {add_field(FormBuilderNew("ticket", "Support Ticket"),
               TryFromFieldBuilder(required(FieldBuilderNew("value", "Value", t), r)).def) :
        t \in FieldTypes, r \in BOOLEAN}

\* fn create_test_form of the validator's tests
create_test_form ==
    add_field(add_field(add_field(FormBuilderNew("ticket", "Support Ticket"),
        TryFromFieldBuilder(required(FieldBuilderNew("title", "Title", Text), TRUE)).def),
        TryFromFieldBuilder(FieldBuilderNew("severity", "Severity", Number(Some(1), Some(5)))).def),
        TryFromFieldBuilder(FieldBuilderNew("status", "Status",
                                            Select(<<"Open", "Closed">>, FALSE))).def)

\* The FormDefinitions validate_document is given: each the Ok of a build
ValidatorForms ==
    {TryFromFormBuilder(b).form :
        b \in {x \in ProbeFormBuilders \cup {create_test_form} : TryFromFormBuilder(x).ok}}

DocumentFormIds == {"ticket", "other_form"}

\* The key no form declares
UndeclaredKeys == {"extra"}

\* Every `data` map over the given keys, each key absent or holding one of the values
DataOver(keys, values) ==
    UNION {{{[key |-> k, value |-> f[k]] : k \in ks} : f \in [ks -> values]} : ks \in SUBSET keys}

\* The documents a caller holds for a form
Documents(form) ==
    LET declared == {form.fields[i].id : i \in 1..Len(form.fields)}
        values == IF Len(form.fields) = 1 THEN JsonValues ELSE TestValues
    IN  {[id |-> "doc1", form_id |-> f, workflow_id |-> "wf_ticket", current_phase |-> "",
          data |-> data \cup extra, created_at |-> 1, updated_at |-> 1] :
            f \in DocumentFormIds,
            data \in DataOver(declared, values),
            extra \in DataOver(UndeclaredKeys, {JsonString("Open"), JsonNumber(3)})}

\* The caller obtains the form's definition
LoadForm ==
    /\ vform = NoForm
    /\ \E form \in ValidatorForms : vform' = form
    /\ UNCHANGED <<vdoc, vcall, workflowVars, fieldVars, formVars, lifecycleVars, serdeVars, serviceVars, callerVars>>

\* The caller obtains a document
LoadData ==
    /\ vform # NoForm
    /\ vdoc = NoDocument
    /\ \E d \in Documents(vform) : vdoc' = d
    /\ UNCHANGED <<vform, vcall, workflowVars, fieldVars, formVars, lifecycleVars, serdeVars, serviceVars, callerVars>>

\* validate_document(&doc, &form): both arguments are shared borrows, the
\* call leaves a Result and nothing else.  `calls` counts the calls made on
\* the document, `first` keeps the arguments and the Result of the first one.
ValidateDocument ==
    /\ vdoc # NoDocument
    /\ (vcall.called => vcall.calls < MaxCalls)
    /\ LET result == validate_document(vdoc, vform)
       IN  vcall' = [called |-> TRUE, doc |-> vdoc, form |-> vform, result |-> result,
                     calls |-> IF vcall.called THEN vcall.calls + 1 ELSE 1,
                     first |-> IF vcall.called THEN vcall.first
                               ELSE [doc |-> vdoc, form |-> vform, result |-> result]]
    /\ UNCHANGED <<vform, vdoc, workflowVars, fieldVars, formVars, lifecycleVars, serdeVars, serviceVars, callerVars>>

NextValidator ==
    \/ LoadForm
    \/ LoadData
    \/ ValidateDocument

SpecValidator == Init /\ [][NextValidator]_vars

-----------------------------------------------------------------------------
\* A FieldType written to JSON and read back

\* The JSON a FieldType is read from: "config" with every bound missing, null,
\* a number or a string; options present or missing, allow_multiple likewise
FieldTypeJsons ==
    {JsonMap({[key |-> "kind", value |-> JsonString(k)]}) :
        k \in {"text", "text_area", "boolean", "date_time", "Text", "textarea"}}
    \cup
    {JsonMap({[key |-> "kind", value |-> JsonString("number")],
              [key |-> "config", value |-> JsonMap(c)]}) :
        c \in DataOver({"min", "max"},
                       {JsonNull, JsonNumber(0), JsonNumber(100), JsonString("Five")})}
    \cup
    {JsonMap({[key |-> "kind", value |-> JsonString("select")],
              [key |-> "config", value |-> JsonMap(o \cup m)]}) :
        o \in DataOver({"options"}, {JsonArray(<<JsonString("Open"), JsonString("Closed")>>)}),
        m \in DataOver({"allow_multiple"}, {JsonBool(TRUE), JsonBool(FALSE)})}

\* serde_json::to_value(&field_type)
SerializeFieldType(t) ==
    /\ ser.pc = "start"
    /\ ser' = [pc |-> "serialized", value |-> t, json |-> to_value(t)]
    /\ UNCHANGED <<workflowVars, fieldVars, formVars, validatorVars, lifecycleVars, serviceVars, callerVars>>

\* serde_json::from_value::<FieldType>(json) on the output of to_value
ParseFieldType ==
    /\ ser.pc = "serialized"
    /\ ser' = [pc |-> "parsed", value |-> ser.value, json |-> ser.json,
               parsed |-> from_value(ser.json)]
    /\ UNCHANGED <<workflowVars, fieldVars, formVars, validatorVars, lifecycleVars, serviceVars, callerVars>>

\* serde_json::from_value::<FieldType>(json) on JSON written by hand
DeserializeFieldType(json) ==
    /\ ser.pc = "start"
    /\ ser' = [pc |-> "read", json |-> json, parsed |-> from_value(json)]
    /\ UNCHANGED <<workflowVars, fieldVars, formVars, validatorVars, lifecycleVars, serviceVars, callerVars>>

NextSerde ==
    \/ \E t \in SerdeFieldTypes : SerializeFieldType(t)
    \/ ParseFieldType
    \/ \E json \in FieldTypeJsons : DeserializeFieldType(json)

SpecSerde == Init /\ [][NextSerde]_vars

-----------------------------------------------------------------------------
\* The document service's state machine

\* The forms saved under the id "ticket": the form of the tests and a form
\* of one required Number field
ServiceForms ==
    {TryFromFormBuilder(b).form :
        b \in {create_test_form,
               add_field(FormBuilderNew("ticket", "Support Ticket"),
                         TryFromFieldBuilder(required(
                             FieldBuilderNew("severity", "Severity", Number(Some(1), Some(5))),
                             TRUE)).def)}}

\* The workflows saved under the id "wf_ticket": with one Start phase, with a
\* Start phase that is not the first phase, with two, with none
ServiceWorkflows ==
    {TryFrom(b).wf :
        b \in {add_transition(add_phase(add_phase(WorkflowBuilderNew("wf_ticket", "Ticket Workflow"),
                   PhaseNew("draft", "Phase", "Start")), PhaseNew("review", "Phase", "Normal")),
                   TransitionNew("move", "draft", "review")),
               add_phase(add_phase(WorkflowBuilderNew("wf_ticket", "Ticket Workflow"),
                   PhaseNew("review", "Phase", "Normal")), PhaseNew("draft", "Phase", "Start")),
               add_phase(add_phase(WorkflowBuilderNew("wf_ticket", "Ticket Workflow"),
                   PhaseNew("review", "Phase", "Start")), PhaseNew("draft", "Phase", "Start")),
               add_phase(WorkflowBuilderNew("wf_ticket", "Ticket Workflow"),
                   PhaseNew("draft", "Phase", "End"))}}

\* The data of the requests
ServiceData ==
    {{},
     {[key |-> "title", value |-> JsonString("Server Down")],
      [key |-> "severity", value |-> JsonNumber(3)]},
     {[key |-> "title", value |-> JsonString("Server Down")],
      [key |-> "severity", value |-> JsonNumber(10)]},
     {[key |-> "severity", value |-> JsonNumber(3)]}}

\* The ids Uuid::new_v4() gives, one to a call
ServiceDocumentIds == {"doc1", "doc2"}

Faults == {"none", "forms", "workflows", "documents"}

\* FormRepository::save(&db, &form)
SaveForm(form) ==
    /\ db' = [db EXCEPT !.forms = save(@, form)]
    /\ created' = NoCall
    /\ UNCHANGED <<workflowVars, fieldVars, formVars, validatorVars, lifecycleVars, serdeVars, callerVars>>

\* WorkflowRepository::save(&db, &workflow)
SaveWorkflow(w) ==
    /\ db' = [db EXCEPT !.workflows = save(@, w)]
    /\ created' = NoCall
    /\ UNCHANGED <<workflowVars, fieldVars, formVars, validatorVars, lifecycleVars, serdeVars, callerVars>>

\* DocumentService::create_document(form_id, workflow_id, data)
CreateDocument(form_id, workflow_id, data, fault) ==
    /\ \E doc_id \in ServiceDocumentIds :
          /\ \A d \in db.documents : d.id # doc_id
          /\ LET out == create_document(db, form_id, workflow_id, data, doc_id, 1, fault)
             IN  /\ db' = out.db
                 /\ created' = [called |-> TRUE, db |-> db, form_id |-> form_id,
                                workflow_id |-> workflow_id, data |-> data,
                                fault |-> fault, result |-> out.result]
    /\ UNCHANGED <<workflowVars, fieldVars, formVars, validatorVars, lifecycleVars, serdeVars, callerVars>>

NextService ==
    \/ \E form \in ServiceForms : SaveForm(form)
    \/ \E w \in ServiceWorkflows : SaveWorkflow(w)
    \/ \E form_id \in DocumentFormIds, workflow_id \in DocumentWorkflowIds,
          data \in ServiceData, fault \in Faults :
             CreateDocument(form_id, workflow_id, data, fault)

SpecService == Init /\ [][NextService]_vars

-----------------------------------------------------------------------------
\* Concurrent callers: each loads a document, calls validate_document or
\* transition on its own copy with the definitions all callers share, and
\* writes the copy back

\* The workflows the callers share: "draft" is the Start phase and has a
\* self-loop and a way to "review"; in the second "review" leads back
SharedWorkflows ==
    {TryFrom(b).wf :
        b \in {add_transition(add_transition(add_phase(add_phase(
                   WorkflowBuilderNew("wf_ticket", "Ticket Workflow"),
                   PhaseNew("draft", "Phase", "Start")), PhaseNew("review", "Phase", "Normal")),
                   TransitionNew("move", "draft", "review")),
                   TransitionNew("move", "draft", "draft")),
               add_transition(add_transition(add_phase(add_phase(
                   WorkflowBuilderNew("wf_ticket", "Ticket Workflow"),
                   PhaseNew("draft", "Phase", "Start")), PhaseNew("review", "Phase", "Normal")),
                   TransitionNew("move", "draft", "review")),
                   TransitionNew("move", "review", "draft"))}}

\* The stored documents: both in the Start phase, the second with data that
\* the shared form does not accept
StoredDocuments ==
    {[id |-> "doc1", form_id |-> "ticket", workflow_id |-> "wf_ticket",
      current_phase |-> "draft",
      data |-> {[key |-> "title", value |-> JsonString("Server Down")]},
      created_at |-> 1, updated_at |-> 1],
     [id |-> "doc2", form_id |-> "ticket", workflow_id |-> "wf_ticket",
      current_phase |-> "draft",
      data |-> {[key |-> "severity", value |-> JsonNumber(10)]},
      created_at |-> 1, updated_at |-> 1]}

\* The definitions are built once and handed to every caller
Share(w) ==
    /\ shared = NoDefinitions
    /\ shared' = [form |-> TryFromFormBuilder(create_test_form).form, workflow |-> w]
    /\ published' = shared'
    /\ db' = [db EXCEPT !.documents = StoredDocuments]
    /\ UNCHANGED <<frames, applied, created, workflowVars, fieldVars, formVars,
                   validatorVars, lifecycleVars, serdeVars>>

\* DocumentRepository::find_by_id(id): the caller gets its own Document
Load(c, m) ==
    /\ shared # NoDefinitions
    /\ frames[c].pc = "idle"
    /\ frames' = [frames EXCEPT ![c] = [pc |-> "loaded", doc |-> find_by_id(m), call |-> NoCall]]
    /\ UNCHANGED <<shared, published, applied, serviceVars, workflowVars, fieldVars,
                   formVars, validatorVars, lifecycleVars, serdeVars>>

\* validate_document(&doc, &form) by caller c
CallValidate(c) ==
    /\ frames[c].pc = "loaded"
    /\ frames' = [frames EXCEPT ![c] =
                     [pc |-> "checked", doc |-> @.doc,
                      call |-> [called |-> TRUE, op |-> "validate_document", before |-> @.doc,
                                result |-> validate_document(@.doc, shared.form)]]]
    /\ UNCHANGED <<shared, published, applied, serviceVars, workflowVars, fieldVars,
                   formVars, validatorVars, lifecycleVars, serdeVars>>

\* transition(&mut doc, &workflow, target) by caller c
CallTransition(c, target) ==
    /\ frames[c].pc \in {"loaded", "checked"}
    /\ LET out == transition(frames[c].doc, shared.workflow, target)
       IN  frames' = [frames EXCEPT ![c] =
                         [pc |-> "moved", doc |-> out.doc,
                          call |-> [called |-> TRUE, op |-> "transition", before |-> @.doc,
                                    target |-> target, result |-> out.result]]]
    /\ UNCHANGED <<shared, published, applied, serviceVars, workflowVars, fieldVars,
                   formVars, validatorVars, lifecycleVars, serdeVars>>

\* DocumentRepository::update(&doc) by caller c, after its transition succeeded
Update(c) ==
    /\ frames[c].pc = "moved"
    /\ frames[c].call.result.ok
    /\ LET before == CHOOSE r \in db.documents : r.id = frames[c].doc.id
           out == update(db.documents, frames[c].doc, before.updated_at + 1)
       IN  /\ db' = [db EXCEPT !.documents = out.documents]
           /\ applied' = [called |-> TRUE, by |-> c, doc |-> frames[c].doc,
                          before |-> before, ok |-> out.ok]
    /\ frames' = [frames EXCEPT ![c].pc = "saved"]
    /\ UNCHANGED <<shared, published, created, workflowVars, fieldVars, formVars,
                   validatorVars, lifecycleVars, serdeVars>>

NextCallers ==
    \/ \E w \in SharedWorkflows : Share(w)
    \/ \E c \in Callers, m \in db.documents : Load(c, m)
    \/ \E c \in Callers : CallValidate(c)
    \/ \E c \in Callers, target \in Targets : CallTransition(c, target)
    \/ \E c \in Callers : Update(c)

SpecCallers == Init /\ [][NextCallers]_vars

-----------------------------------------------------------------------------
\* Vocabulary of the properties, stated on the workflow's lists directly

\* The ids the workflow's phases carry
PhaseIdsOf(w) == {w.phases[i].id : i \in 1..Len(w.phases)}

\* The workflow declares a transition from a to b
Declared(w, a, b) ==
    [from |-> a, to |-> b] \in
        {[from |-> w.transitions[i].from, to |-> w.transitions[i].to] : i \in 1..Len(w.transitions)}

\* The workflow declares some transition leaving a
HasOutgoing(w, a) == \E b \in PhaseIdsOf(w) \cup Targets : Declared(w, a, b)

\* Positions of the Start-typed phases
StartPositions(w) == {i \in 1..Len(w.phases) : w.phases[i].phase_type = "Start"}

\* The last transition call was made with a document of the workflow passed
Matching == call.before.workflow_id = call.workflow.id

\* The last transition call named a phase of the workflow
TargetExists == call.target \in PhaseIdsOf(call.workflow)

-----------------------------------------------------------------------------
\* C1: for a document with a non-empty current_phase, a matching workflow_id
\* and a target that is a phase of the workflow, transition succeeds and sets
\* current_phase to the target exactly when the workflow declares a transition
\* from current_phase to the target; otherwise it fails with
\* InvalidTransition{current_phase, target}.  Moving to the phase the document
\* is in needs a declared self-loop like any other move.
C1_MoveIffDeclaredEdge ==
    (call.called /\ call.before.current_phase # "" /\ Matching /\ TargetExists) =>
        IF Declared(call.workflow, call.before.current_phase, call.target)
        THEN call.result = Ok /\ doc.current_phase = call.target
        ELSE /\ call.result = Err(InvalidTransition(call.before.current_phase, call.target))
             /\ doc.current_phase = call.before.current_phase

\* A request to stay in the current phase, refused because no self-loop is
\* declared although the phase has a declared way out.
C1_Witness ==
    /\ call.called /\ Matching /\ TargetExists
    /\ call.before.current_phase = call.target
    /\ ~Declared(call.workflow, call.target, call.target)
    /\ HasOutgoing(call.workflow, call.target)
    /\ call.result = Err(InvalidTransition(call.target, call.target))

\* C2: every failing call of transition (WorkflowMismatch, UnknownPhase,
\* InvalidTransition) leaves the whole document as it was before the call.
C2_FailureLeavesDocument ==
    (call.called /\ ~call.result.ok) =>
        /\ call.result.err.kind \in {"WorkflowMismatch", "UnknownPhase", "InvalidTransition"}
        /\ doc = call.before

\* An undeclared jump between two phases of the workflow, refused, on a
\* document that carries data.
C2_Witness ==
    /\ call.called /\ ~call.result.ok
    /\ call.result.err.kind = "InvalidTransition"
    /\ call.before.current_phase \in PhaseIdsOf(call.workflow)
    /\ call.before.current_phase # call.target
    /\ call.before.data # {}

\* C3: for an uninitialized document (current_phase = "") of the workflow and
\* a target that is a phase of a workflow with a Start phase, transition
\* succeeds exactly when the target is the id of the first Start-typed phase in
\* list order; every other target, a later Start-typed phase included, fails
\* with InvalidTransition{"WAITING_TO_START", target}.
C3_NewDocumentOnlyToFirstStart ==
    (call.called /\ call.before.current_phase = "" /\ Matching /\ TargetExists
       /\ StartPositions(call.workflow) # {}) =>
        LET first == Min(StartPositions(call.workflow))
        IN  IF call.target = call.workflow.phases[first].id
            THEN call.result = Ok /\ doc.current_phase = call.target
            ELSE /\ call.result = Err(InvalidTransition("WAITING_TO_START", call.target))
                 /\ doc.current_phase = ""

\* A new document sent to the second of two Start-typed phases, refused.
C3_Witness ==
    /\ call.called /\ call.before.current_phase = "" /\ Matching
    /\ Cardinality(StartPositions(call.workflow)) = 2
    /\ call.workflow.phases[1].id # call.workflow.phases[2].id
    /\ call.target = call.workflow.phases[2].id
    /\ call.result = Err(InvalidTransition("WAITING_TO_START", call.target))

\* C4: when document.workflow_id differs from workflow.id, transition fails
\* with WorkflowMismatch{document's workflow id, workflow's id} for every
\* target and every current_phase, and the document is not changed.
C4_MismatchAlwaysRejected ==
    (call.called /\ ~Matching) =>
        /\ call.result = Err(WorkflowMismatch(call.before.workflow_id, call.workflow.id))
        /\ doc = call.before

\* A document of another workflow asked to move to a phase the workflow does
\* not have.
C4_Witness ==
    /\ call.called /\ ~Matching /\ ~TargetExists
    /\ call.before.current_phase # ""
    /\ call.result.err.kind = "WorkflowMismatch"

\* C5: when the workflow ids match and the target names no phase of the
\* workflow, transition fails with UnknownPhase(target) whatever current_phase
\* is: the unknown target is decided before the start phase and the edge.
C5_UnknownTargetFirst ==
    (call.called /\ Matching /\ ~TargetExists) =>
        /\ call.result = Err(UnknownPhase(call.target))
        /\ doc = call.before

\* An uninitialized document of a workflow without Start phase, asked to move
\* to an unknown phase.
C5_Witness ==
    /\ call.called /\ Matching /\ ~TargetExists
    /\ call.before.current_phase = ""
    /\ Len(call.workflow.phases) > 0
    /\ StartPositions(call.workflow) = {}
    /\ call.result = Err(UnknownPhase(call.target))

\* C6: for an uninitialized document and a matching workflow without a
\* Start-typed phase, transition to any phase of the workflow fails with
\* UnknownPhase("No start phase defined"); whatever the target, the document
\* stays uninitialized.
C6_NoStartPhaseNoWayIn ==
    (call.called /\ call.before.current_phase = "" /\ Matching
       /\ StartPositions(call.workflow) = {}) =>
        /\ TargetExists => call.result = Err(UnknownPhase("No start phase defined"))
        /\ ~call.result.ok
        /\ doc.current_phase = ""

\* An uninitialized document asked to enter the first phase of a workflow
\* whose phases are all Normal or End.
C6_Witness ==
    /\ call.called /\ call.before.current_phase = "" /\ Matching
    /\ StartPositions(call.workflow) = {}
    /\ Len(call.workflow.phases) > 0
    /\ call.target = call.workflow.phases[1].id
    /\ call.result = Err(UnknownPhase("No start phase defined"))

\* C7: a successful transition changes document.current_phase to the target
\* and nothing else: data, id, form_id, workflow_id, created_at and updated_at
\* keep their values, the document gains no field recording earlier phases,
\* and the workflow definition is the one that was passed.
C7_SuccessChangesOnlyPhase ==
    (call.called /\ call.result.ok) =>
        /\ doc = [call.before EXCEPT !.current_phase = call.target]
        /\ DOMAIN doc = DocumentFields
        /\ wf = call.workflow

\* A document with data moved from one phase to another.
C7_Witness ==
    /\ call.called /\ call.result.ok
    /\ call.before.current_phase # ""
    /\ call.before.current_phase # call.target
    /\ call.before.data # {}
    /\ doc.current_phase = call.target

\* C8: End-typed phases get no special treatment: a document in an End phase
\* moves to a phase of the workflow exactly when that transition is declared;
\* and a document in a phase (of any type) without outgoing declared
\* transition has every request refused and stays where it is.
C8_EndPhasesByEdgesOnly ==
    call.called /\ Matching /\ call.before.current_phase # "" =>
        /\ (TargetExists /\ \E i \in 1..Len(call.workflow.phases) :
                /\ call.workflow.phases[i].id = call.before.current_phase
                /\ call.workflow.phases[i].phase_type = "End")
             => (call.result.ok <=>
                    Declared(call.workflow, call.before.current_phase, call.target))
        /\ ~HasOutgoing(call.workflow, call.before.current_phase)
             => (~call.result.ok /\ doc.current_phase = call.before.current_phase)

\* A document moved out of a phase that is End-typed and nothing else.
C8_Witness ==
    /\ call.called /\ Matching /\ call.result.ok
    /\ \A i \in 1..Len(call.workflow.phases) :
          call.workflow.phases[i].id = call.before.current_phase
             => call.workflow.phases[i].phase_type = "End"
    /\ call.before.current_phase \in PhaseIdsOf(call.workflow)
    /\ call.before.current_phase # call.target
    /\ doc.current_phase = call.target

\* C9: every WorkflowDefinition returned by WorkflowBuilder::build or by
\* deserialization has graph integrity: both ends of each of its transitions
\* are ids of phases of the same definition.  Cycles are allowed.
C9_BuiltWorkflowHasIntegrity ==
    pc = "built" =>
        /\ built.ok
        /\ \A i \in 1..Len(wf.transitions) :
              /\ wf.transitions[i].from \in PhaseIdsOf(wf)
              /\ wf.transitions[i].to \in PhaseIdsOf(wf)

\* A returned definition whose two transitions form a cycle.
C9_Witness ==
    /\ pc = "built"
    /\ Len(wf.transitions) = 2
    /\ Declared(wf, "draft", "review")
    /\ Declared(wf, "review", "draft")

\* The builder has a transition whose source / target names none of its phases
DanglingSource(b) == \E i \in 1..Len(b.transitions) : b.transitions[i].from \notin PhaseIdsOf(b)
DanglingTarget(b) == \E i \in 1..Len(b.transitions) : b.transitions[i].to \notin PhaseIdsOf(b)

\* The builder breaks a length rule: on its id, its name, or in a phase or transition
HasLengthViolation(b) ==
    \/ Len(b.id) < MinLen \/ Len(b.id) > MaxIdLen
    \/ Len(b.name) < MinLen \/ Len(b.name) > MaxNameLen
    \/ \E i \in 1..Len(b.phases) :
          \/ Len(b.phases[i].id) < MinLen \/ Len(b.phases[i].id) > MaxIdLen
          \/ Len(b.phases[i].label) < MinLen \/ Len(b.phases[i].label) > MaxNameLen
    \/ \E i \in 1..Len(b.transitions) :
          \/ Len(b.transitions[i].name) < MinLen \/ Len(b.transitions[i].name) > MaxNameLen
          \/ Len(b.transitions[i].from) < MinLen \/ Len(b.transitions[i].from) > MaxIdLen
          \/ Len(b.transitions[i].to) < MinLen \/ Len(b.transitions[i].to) > MaxIdLen

\* C10: build on a builder with a transition whose from (to) names no phase
\* of the builder always fails with a finding tagged invalid_transition_source
\* (invalid_transition_target), also when the builder has a length violation
\* as well: then the length findings and the integrity findings are both in
\* the one result.
C10_DanglingAlwaysReported ==
    pc \in {"built", "rejected"} =>
        /\ DanglingSource(builder) =>
              ~built.ok /\ \E e \in built.errors : e.code = "invalid_transition_source"
        /\ DanglingTarget(builder) =>
              ~built.ok /\ \E e \in built.errors : e.code = "invalid_transition_target"
        /\ HasLengthViolation(builder) =>
              ~built.ok /\ \E e \in built.errors : e.code = "length"

-----------------------------------------------------------------------------
\* Vocabulary of the form and field properties

\* The field at position i carries the id of a field before it
RepeatsEarlier(fields, i) == \E j \in 1..(i - 1) : fields[j].id = fields[i].id

HasDuplicateIds(fields) == \E i \in 1..Len(fields) : RepeatsEarlier(fields, i)

\* Every character of s is a letter, a digit, a hyphen or an underscore
IdCharactersOnly(s) ==
    \A i \in 1..Len(Chars(s)) : Chars(s)[i] \in Letters \cup Digits \cup {"-", "_"}

FormFinished == form_pc \in {"built", "rejected"}
FieldFinished == field_pc \in {"built", "rejected"}

-----------------------------------------------------------------------------
\* C11: FormBuilder::build on a builder whose list holds two fields with the
\* same id fails: the result carries a duplicate_field_id finding and no
\* FormDefinition, wherever the two fields sit in the list and whichever of
\* add_field and with_fields put them there.
C11_DuplicateIdsRejected ==
    (FormFinished /\ form_built.via = "build" /\ HasDuplicateIds(form_builder.fields))
        => /\ ~form_built.ok
           /\ form_built.form = NoForm
           /\ \E e \in form_built.errors : e.code = "duplicate_field_id"

\* A build rejected for two fields of one id that are not neighbours and are
\* not the same field, on an otherwise valid form.
C11_Witness ==
    /\ form_pc = "rejected"
    /\ form_built.via = "build"
    /\ form_builder.id = "ticket"
    /\ form_builder.name = "Ticket"
    /\ Len(form_builder.fields) = 3
    /\ form_builder.fields[1].id = form_builder.fields[3].id
    /\ form_builder.fields[1] # form_builder.fields[3]
    /\ form_builder.fields[2].id # form_builder.fields[1].id
    /\ form_built.errors = {DuplicateFieldId(form_builder.fields[1].id)}

\* C12: every FormDefinition obtained, by build or by deserialization, has an
\* id of 1 to 64 characters that are all letters, digits, hyphens or
\* underscores, a name of 1 to 100 characters, and pairwise distinct field ids.
C12_BuiltFormInvariants ==
    form_built.ok =>
        LET f == form_built.form
        IN  /\ Len(f.id) >= 1 /\ Len(f.id) <= 64
            /\ IdCharactersOnly(f.id)
            /\ Len(f.name) >= 1 /\ Len(f.name) <= 100
            /\ \A i, j \in 1..Len(f.fields) : i # j => f.fields[i].id # f.fields[j].id

\* A form of two fields obtained from JSON.
C12_Witness ==
    /\ form_pc = "built"
    /\ form_built.ok
    /\ form_built.via = "deserialize"
    /\ Len(form_built.form.fields) = 2

\* C13, as stated: a FieldDefinition is obtained exactly for an id of 1 to 64
\* characters that are all letters, digits, hyphens or underscores and a label
\* of 1 to 100 characters; build fails for an empty or over-long id, for an id
\* holding any other character, and for an empty or over-long label.
C13_FieldIdCharacterClass ==
    FieldFinished =>
        (field_built.ok <=>
            /\ Len(field_builder.id) >= 1 /\ Len(field_builder.id) <= 64
            /\ IdCharactersOnly(field_builder.id)
            /\ Len(field_builder.label) >= 1 /\ Len(field_builder.label) <= 100)

\* C13, amended: a FieldDefinition is obtained, by build or by
\* deserialization, exactly for an id of 1 to 64 characters and a label of 1 to
\* 100 characters, and it carries that id and that label; the characters of
\* the id are not restricted.  A failing build returns findings and no
\* FieldDefinition.
C13_FieldLengthsOnly ==
    FieldFinished =>
        /\ field_built.ok <=>
              /\ Len(field_builder.id) >= 1 /\ Len(field_builder.id) <= 64
              /\ Len(field_builder.label) >= 1 /\ Len(field_builder.label) <= 100
        /\ field_built.ok =>
              /\ field_built.def.id = field_builder.id
              /\ field_built.def.label = field_builder.label
        /\ ~field_built.ok => field_built.def = NoField /\ field_built.errors # {}

\* A FieldDefinition built with an id of legal length that holds a space.
C13_Witness ==
    /\ field_pc = "built"
    /\ field_built.ok
    /\ field_built.def.id = "due date"
    /\ ~IdCharactersOnly(field_built.def.id)

-----------------------------------------------------------------------------
\* Vocabulary of the validator properties, stated on the document's entries

\* validate_document was called on a document of the form's own id
Checked == vcall.called /\ vcall.doc.form_id = vcall.form.id

Absent(d, key) == \A e \in d.data : e.key # key
HoldsNull(d, key) == [key |-> key, value |-> JsonNull] \in d.data

\* The document holds a value other than null under the key
HoldsValue(d, key) == \E e \in d.data : e.key = key /\ e.value # JsonNull
ValueUnder(d, key) == (CHOOSE e \in d.data : e.key = key).value

\* The findings of the result that name the field, in the result's order
FindingsOn(result, field_id) ==
    LET names(e) == e.field_id = field_id
    IN  SelectSeq(result.errors, names)

IsOption(options, s) == s \in {options[i] : i \in 1..Len(options)}

\* The declared fields of the checked form that are of the kind and hold a value
Holding(kind) ==
    {i \in 1..Len(vcall.form.fields) :
        /\ vcall.form.fields[i].field_type.kind = kind
        /\ HoldsValue(vcall.doc, vcall.form.fields[i].id)}

-----------------------------------------------------------------------------
\* C15: when the document's form_id differs from the form's id, the result is
\* the list of exactly one finding, FormIdMismatch(document's form id, form's
\* id), whatever the data and the fields are: no field is checked.
C15_MismatchIsTheOnlyFinding ==
    (vcall.called /\ vcall.doc.form_id # vcall.form.id)
        => vcall.result =
             [ok |-> FALSE,
              errors |-> <<FormIdMismatch(vcall.doc.form_id, vcall.form.id)>>]

\* A mismatching document that also lacks the form's required first field and
\* holds an out-of-range number.
C15_Witness ==
    /\ vcall.called
    /\ vcall.doc.form_id = "other_form"
    /\ vcall.form.id = "ticket"
    /\ Len(vcall.form.fields) = 3
    /\ vcall.form.fields[1].required
    /\ Absent(vcall.doc, vcall.form.fields[1].id)
    /\ [key |-> "severity", value |-> JsonNumber(10)] \in vcall.doc.data
    /\ Len(vcall.result.errors) = 1

\* C16: with matching ids, MissingRequiredField(field id) is recorded for a
\* declared field exactly when the field is required and its entry is absent or
\* null, and it is then the field's only finding; a non-required field whose
\* entry is absent or null has no finding.
C16_MissingExactlyWhenRequiredAndEmpty ==
    Checked =>
        \A i \in 1..Len(vcall.form.fields) :
            LET field == vcall.form.fields[i]
                empty == Absent(vcall.doc, field.id) \/ HoldsNull(vcall.doc, field.id)
                found == FindingsOn(vcall.result, field.id)
            IN  /\ (\E k \in 1..Len(found) : found[k] = MissingRequiredField(field.id))
                       <=> (field.required /\ empty)
                /\ (field.required /\ empty) => found = <<MissingRequiredField(field.id)>>
                /\ (~field.required /\ empty) => found = <<>>

\* The required first field holds null and a non-required field is absent:
\* one MissingRequiredField, for the first field only.
C16_Witness ==
    /\ Checked
    /\ Len(vcall.form.fields) = 3
    /\ vcall.form.fields[1].required
    /\ HoldsNull(vcall.doc, vcall.form.fields[1].id)
    /\ ~vcall.form.fields[2].required
    /\ Absent(vcall.doc, vcall.form.fields[2].id)
    /\ [key |-> "status", value |-> JsonString("Open")] \in vcall.doc.data
    /\ vcall.result.errors = <<MissingRequiredField(vcall.form.fields[1].id)>>

\* The documents of d's form_id that agree with d on every declared key: the
\* undeclared keys and the other fields of the document are free.
AgreeingDocuments(d, form) ==
    LET declared == {form.fields[i].id : i \in 1..Len(form.fields)}
    IN  {[d EXCEPT !.id = id, !.current_phase = phase,
                   !.data = {e \in d.data : e.key \in declared} \cup extra] :
            id \in {"doc1", "doc2"}, phase \in {"", "draft"},
            extra \in DataOver(UndeclaredKeys, {JsonString("Open"), JsonNumber(3), JsonNull})}

\* C17: validate_document ignores the keys of `data` that no field declares:
\* two documents of the same form_id that agree on every declared key get the
\* same result.
C17_UndeclaredKeysIgnored ==
    vcall.called =>
        \A d \in AgreeingDocuments(vcall.doc, vcall.form) :
            validate_document(d, vcall.form) = vcall.result

\* A document with an undeclared key that passes, as the one without it does.
C17_Witness ==
    /\ Checked
    /\ Len(vcall.form.fields) = 3
    /\ ~Absent(vcall.doc, "extra")
    /\ vcall.result.ok
    /\ \E d \in AgreeingDocuments(vcall.doc, vcall.form) : Absent(d, "extra")

\* C18: for a Number field holding a numeric v, the finding is ValueTooLow(v,
\* min) exactly when min is set and v < min; otherwise ValueTooHigh(v, max)
\* exactly when max is set and v > max; otherwise there is none (the bounds
\* are inclusive, an unset bound rejects nothing).  A value that is no number
\* is reported as InvalidType.
C18_NumberBounds ==
    Checked =>
        \A i \in Holding("Number") :
            LET field == vcall.form.fields[i]
                min == field.field_type.min
                max == field.field_type.max
                v == ValueUnder(vcall.doc, field.id)
                found == FindingsOn(vcall.result, field.id)
            IN  IF v.json # "Number"
                THEN Len(found) = 1 /\ found[1].kind = "InvalidType"
                ELSE IF min.some /\ v.n < min.val
                THEN found = <<ValueTooLow(field.id, v.n, min.val)>>
                ELSE IF max.some /\ v.n > max.val
                THEN found = <<ValueTooHigh(field.id, v.n, max.val)>>
                ELSE found = <<>>

\* A value equal to the minimum of a field with both bounds set is accepted.
C18_Witness ==
    /\ Checked
    /\ Len(vcall.form.fields) = 1
    /\ vcall.form.fields[1].field_type = Number(Some(1), Some(5))
    /\ [key |-> vcall.form.fields[1].id, value |-> JsonNumber(1)] \in vcall.doc.data
    /\ vcall.result.ok

\* C19: for a Select field holding a value: with allow_multiple the value is
\* accepted exactly when it is an array whose items are all strings among the
\* options (a non-array is InvalidType; the first item that is not such a
\* string decides: InvalidType if it is no string, InvalidSelection if it is a
\* string outside the options); without allow_multiple it is accepted exactly
\* when it is a string among the options (a string outside them is
\* InvalidSelection with the value and the options, any other value
\* InvalidType).
C19_SelectMembership ==
    Checked =>
        \A i \in Holding("Select") :
            LET field == vcall.form.fields[i]
                options == field.field_type.options
                v == ValueUnder(vcall.doc, field.id)
                found == FindingsOn(vcall.result, field.id)
                good(item) == item.json = "String" /\ IsOption(options, item.s)
            IN  IF field.field_type.allow_multiple
                THEN /\ found = <<>> <=>
                          (v.json = "Array" /\ \A k \in 1..Len(v.items) : good(v.items[k]))
                     /\ Len(found) <= 1
                     /\ v.json # "Array" =>
                          found = <<InvalidType(field.id, "Array", get_json_type(v))>>
                     /\ (v.json = "Array" /\ found # <<>>) =>
                          LET first == Min({k \in 1..Len(v.items) : ~good(v.items[k])})
                          IN  IF v.items[first].json # "String"
                              THEN found[1].kind = "InvalidType"
                              ELSE found = <<InvalidSelection(field.id, v.items[first].s, options)>>
                ELSE /\ found = <<>> <=> good(v)
                     /\ Len(found) <= 1
                     /\ v.json # "String" => found[1].kind = "InvalidType"
                     /\ (v.json = "String" /\ ~IsOption(options, v.s)) =>
                          found = <<InvalidSelection(field.id, v.s, options)>>

\* A multiple-choice field given an array whose first item is an option and
\* whose second is a string outside the options.
C19_Witness ==
    /\ Checked
    /\ Len(vcall.form.fields) = 1
    /\ vcall.form.fields[1].field_type = Select(<<"Open", "Closed">>, TRUE)
    /\ [key |-> vcall.form.fields[1].id,
        value |-> JsonArray(<<JsonString("Open"), JsonString("In Progress")>>)] \in vcall.doc.data
    /\ vcall.result.errors
          = <<InvalidSelection(vcall.form.fields[1].id, "In Progress", <<"Open", "Closed">>)>>

\* C20, as stated: for a DateTime field, every value other than null that is
\* not a string parseable as RFC 3339 is reported as InvalidDateFormat, a
\* string that does not parse and a value that is no string alike; a
\* parseable string has no finding.
C20_EveryBadValueInvalidDateFormat ==
    Checked =>
        \A i \in Holding("DateTime") :
            LET field == vcall.form.fields[i]
                v == ValueUnder(vcall.doc, field.id)
                found == FindingsOn(vcall.result, field.id)
            IN  IF v.json = "String" /\ parse_from_rfc3339(v.s)
                THEN found = <<>>
                ELSE Len(found) = 1 /\ found[1].kind = "InvalidDateFormat"

\* C20, amended: for a DateTime field, a value other than null that is no
\* string is reported as InvalidType (expected "String (ISO 8601)", got the
\* value's JSON type); a string that does not parse as RFC 3339 is reported as
\* InvalidDateFormat with the string; a parseable string has no finding.
C20_DateTimeFindings ==
    Checked =>
        \A i \in Holding("DateTime") :
            LET field == vcall.form.fields[i]
                v == ValueUnder(vcall.doc, field.id)
                found == FindingsOn(vcall.result, field.id)
            IN  IF v.json # "String"
                THEN found = <<InvalidType(field.id, "String (ISO 8601)", get_json_type(v))>>
                ELSE IF ~parse_from_rfc3339(v.s)
                THEN found = <<InvalidDateFormat(field.id, v.s)>>
                ELSE found = <<>>

\* A DateTime field given a well-formed timestamp of a day the calendar does
\* not have: InvalidDateFormat.
C20_Witness ==
    /\ Checked
    /\ Len(vcall.form.fields) = 1
    /\ vcall.form.fields[1].field_type = DateTime
    /\ [key |-> vcall.form.fields[1].id, value |-> JsonString("2024-02-30T10:30:00Z")]
          \in vcall.doc.data
    /\ vcall.result.errors
          = <<InvalidDateFormat(vcall.form.fields[1].id, "2024-02-30T10:30:00Z")>>

-----------------------------------------------------------------------------
\* What a declared field asks of a document, stated on the value alone

\* The value, which is not null, is of the field's type and within its constraint
Accepts(field_type, v) ==
    CASE field_type.kind \in {"Text", "TextArea"} -> v.json = "String"
      [] field_type.kind = "Number" ->
            /\ v.json = "Number"
            /\ field_type.min.some => v.n >= field_type.min.val
            /\ field_type.max.some => v.n <= field_type.max.val
      [] field_type.kind = "Boolean" -> v.json = "Bool"
      [] field_type.kind = "DateTime" -> v.json = "String" /\ parse_from_rfc3339(v.s)
      [] field_type.kind = "Select" ->
            IF field_type.allow_multiple
            THEN /\ v.json = "Array"
                 /\ \A k \in 1..Len(v.items) :
                       v.items[k].json = "String" /\ IsOption(field_type.options, v.items[k].s)
            ELSE v.json = "String" /\ IsOption(field_type.options, v.s)

\* The field is required and the document has nothing for it, or the document
\* has a value for it that the field does not accept
Offends(d, field) ==
    \/ field.required /\ (Absent(d, field.id) \/ HoldsNull(d, field.id))
    \/ HoldsValue(d, field.id) /\ ~Accepts(field.field_type, ValueUnder(d, field.id))

\* The declared fields of the checked form that the checked document offends
Offending == {i \in 1..Len(vcall.form.fields) : Offends(vcall.doc, vcall.form.fields[i])}

\* C21: when the ids agree, every declared field is checked, a failure of an
\* earlier field notwithstanding: the errors name a declared field exactly
\* when that field is required and missing (or null) or holds a value that
\* violates its type or constraint, every error names a declared field, and
\* the result is Ok exactly when no declared field offends.
C21_EveryOffendingFieldReported ==
    Checked =>
        /\ \A i \in 1..Len(vcall.form.fields) :
              i \in Offending <=> FindingsOn(vcall.result, vcall.form.fields[i].id) # <<>>
        /\ \A k \in 1..Len(vcall.result.errors) :
              \E i \in 1..Len(vcall.form.fields) :
                 vcall.result.errors[k].field_id = vcall.form.fields[i].id
        /\ vcall.result.ok <=> Offending = {}
        /\ vcall.result.ok <=> vcall.result.errors = <<>>

\* The form of three fields and a document that offends each of them: the
\* required title is missing, the severity is above its maximum, the status
\* is no option.  All three are reported.
C21_Witness ==
    /\ Checked
    /\ Len(vcall.form.fields) = 3
    /\ Offending = {1, 2, 3}
    /\ vcall.result.errors
          = <<MissingRequiredField("title"), ValueTooHigh("severity", 10, 5),
              InvalidSelection("status", "In Progress", <<"Open", "Closed">>)>>

Moves(d, w, target) ==
    /\ d.workflow_id = w.id
    /\ target \in PhaseIdsOf(w)
    /\ IF d.current_phase = ""
       THEN StartPositions(w) # {} /\ target = w.phases[Min(StartPositions(w))].id
       ELSE Declared(w, d.current_phase, target)

\* C23: however the calls of concurrent callers interleave, the shared
\* FormDefinition and WorkflowDefinition stay as they were built, and every
\* call does what it does when it runs alone on the caller's own document:
\* transition succeeds exactly when the workflow allows the move and then
\* changes current_phase alone, and otherwise leaves the document; validate_document
\* leaves the document and reports one error for each field that the
\* document offends, none for the others.
C23_CallsAsIfAlone ==
    /\ shared = published
    /\ \A c \in Callers :
          LET f == frames[c]
              fields == published.form.fields
              offending == {i \in 1..Len(fields) : Offends(f.call.before, fields[i])}
          IN  f.call.called =>
                 IF f.call.op = "transition"
                 THEN /\ f.call.result.ok
                            <=> Moves(f.call.before, published.workflow, f.call.target)
                      /\ f.doc = IF f.call.result.ok
                                 THEN [f.call.before EXCEPT !.current_phase = f.call.target]
                                 ELSE f.call.before
                 ELSE /\ f.doc = f.call.before
                      /\ f.call.result.ok <=> offending = {}
                      /\ Len(f.call.result.errors) = Cardinality(offending)
                      /\ \A i \in offending :
                            \E k \in 1..Len(f.call.result.errors) :
                               f.call.result.errors[k].field_id = fields[i].id

\* Two callers with different documents: the second has validated its own
\* and got two errors, then the first has validated its own and got Ok and
\* has moved it to "review".
C23_Witness ==
    /\ shared = published /\ shared # NoDefinitions
    /\ frames["first"].doc.id = "doc1" /\ frames["second"].doc.id = "doc2"
    /\ frames["second"].call.called /\ frames["second"].call.op = "validate_document"
    /\ Len(frames["second"].call.result.errors) = 2
    /\ frames["first"].call.called /\ frames["first"].call.op = "transition"
    /\ frames["first"].call.result = Ok
    /\ frames["first"].doc.current_phase = "review"
    /\ frames["second"].doc.current_phase = "draft"

\* The names the variants of FieldType go by in JSON
KindName(t) ==
    CASE t.kind = "Text" -> "text"
      [] t.kind = "TextArea" -> "text_area"
      [] t.kind = "Number" -> "number"
      [] t.kind = "Boolean" -> "boolean"
      [] t.kind = "DateTime" -> "date_time"
      [] t.kind = "Select" -> "select"

\* The JSON object is tagged with the variant's name under "kind" and has a
\* "config" object beside it exactly for Number and Select, nothing else
TaggedShape(t, json) ==
    /\ {e.key : e \in json.entries} \subseteq {"kind", "config"}
    /\ [key |-> "kind", value |-> JsonString(KindName(t))] \in json.entries
    /\ (\E e \in json.entries : e.key = "config") <=> t.kind \in {"Number", "Select"}
    /\ \A e \in json.entries : e.key = "config" => e.value.json = "Object"
    /\ t = Text => json = JsonMap({[key |-> "kind", value |-> JsonString("text")]})

\* C24: every FieldType value that is serialized and parsed back comes back
\* equal to itself, for every variant and, for Number, every combination of
\* set and unset min and max; the JSON carries the snake_case variant name
\* under "kind" and a "config" object only for the variants with fields, so
\* that Text is exactly {"kind": "text"}.
C24_RoundTripAndShape ==
    /\ ser.pc \in {"serialized", "parsed"} => TaggedShape(ser.value, ser.json)
    /\ ser.pc = "parsed" => ser.parsed.ok /\ eq(ser.parsed.value, ser.value)

\* A Number field whose min is an infinity comes back without a min.
C24_Witness ==
    /\ ser.pc = "parsed"
    /\ ser.value = Number(SomeInfinity, Some(5))
    /\ ser.parsed = [ok |-> TRUE, value |-> Number(None, Some(5))]

\* The round trip and the shape of the JSON, for the FieldType values whose
\* bounds are finite numbers or unset.
FiniteBoundsRoundTrip ==
    /\ ser.pc \in {"serialized", "parsed"} => TaggedShape(ser.value, ser.json)
    /\ (/\ ser.pc = "parsed"
        /\ ser.value.kind = "Number" => ser.value.min \in NumberBounds /\ ser.value.max \in NumberBounds)
          => ser.parsed = [ok |-> TRUE, value |-> ser.value]

\* The definition stored under the id before the last create_document call
FetchedForm == CHOOSE f \in created.db.forms : f.id = created.form_id
FetchedWorkflow == CHOOSE w \in created.db.workflows : w.id = created.workflow_id

\* C25: create_document stores a document only when every check has passed.
\* When it returns a document, exactly that document was added to the table;
\* its data is the request's and validate_document accepts it against the
\* form stored under the request's form id; its current_phase is the id of
\* the first Start phase of the workflow stored under the request's workflow
\* id and is not empty.  When it returns an error (the form or the workflow
\* is not found, the workflow has no Start phase, the data has findings, the
\* database fails) the table of documents is as it was.  The definitions are
\* never changed by it.
C25_StoredOnlyAfterEveryCheck ==
    created.called =>
        /\ db.forms = created.db.forms /\ db.workflows = created.db.workflows
        /\ IF created.result.ok
           THEN LET d == created.result.doc
                IN  /\ db.documents = created.db.documents \cup {d}
                    /\ \A old \in created.db.documents : old.id # d.id
                    /\ d.form_id = created.form_id /\ d.workflow_id = created.workflow_id
                    /\ d.data = created.data
                    /\ \E f \in created.db.forms : f.id = created.form_id
                    /\ validate_document(d, FetchedForm).ok
                    /\ \E w \in created.db.workflows : w.id = created.workflow_id
                    /\ StartPositions(FetchedWorkflow) # {}
                    /\ d.current_phase
                          = FetchedWorkflow.phases[Min(StartPositions(FetchedWorkflow))].id
                    /\ d.current_phase # ""
           ELSE /\ db.documents = created.db.documents
                /\ created.fault = "none" =>
                      created.result.err.kind \in
                         {"FormNotFound", "WorkflowNotFound", "WorkflowRuleViolation",
                          "DocumentValidationErrors"}
                /\ created.result.err.kind = "DocumentValidationErrors" =>
                      /\ created.result.err.errors # <<>>
                      /\ \E f \in created.db.forms :
                            /\ f.id = created.form_id
                            /\ \E w \in created.db.workflows :
                                  /\ w.id = created.workflow_id
                                  /\ StartPositions(w) # {}

\* A request whose data has a finding, made when one document is stored: the
\* error carries the finding and the one document is all that is stored.
C25_Witness ==
    /\ created.called /\ ~created.result.ok
    /\ created.result.err = DocumentValidationErrors(<<ValueTooHigh("severity", 10, 5)>>)
    /\ Cardinality(db.documents) = 1
    /\ \A d \in db.documents : d.current_phase = "review"
    /\ db.documents = created.db.documents

\* The row of the last update, as it is stored
UpdatedRow == CHOOSE r \in db.documents : r.id = applied.doc.id

\* C26: neither transition nor DocumentRepository::update looks at what is
\* stored: a transition succeeds on the caller's copy whatever became of the
\* row since it was loaded, and the update that follows always succeeds and
\* puts the copy's current_phase and data into the row, also when another
\* caller has updated the row in between.  The stored current_phase can so
\* change between two phases that no declared transition connects.
C26_UpdateOverwritesUnchecked ==
    applied.called =>
        /\ applied.ok
        /\ UpdatedRow.current_phase = applied.doc.current_phase
        /\ UpdatedRow.data = applied.doc.data
        /\ UpdatedRow.updated_at = applied.before.updated_at + 1
        /\ [UpdatedRow EXCEPT !.current_phase = applied.before.current_phase,
                              !.data = applied.before.data,
                              !.updated_at = applied.before.updated_at] = applied.before
        /\ frames[applied.by].call.result = Ok
        /\ Moves(frames[applied.by].call.before, shared.workflow, frames[applied.by].call.target)

\* Both callers loaded doc1 in "draft"; each one's transition succeeded, the
\* one to "review", the other along the self-loop to "draft"; the later update
\* took the stored current_phase from "review" to "draft", which no declared
\* transition does.
C26_Witness ==
    /\ applied.called /\ applied.ok
    /\ \A c \in Callers :
          /\ frames[c].pc = "saved"
          /\ frames[c].doc.id = "doc1"
          /\ frames[c].call.before.current_phase = "draft"
          /\ frames[c].call.result = Ok
    /\ applied.before.current_phase = "review"
    /\ UpdatedRow.current_phase = "draft"
    /\ ~Declared(shared.workflow, "review", "draft")

\* The ids one declared transition away from an id of S, with S
OneStep(w, S) ==
    S \cup {w.transitions[i].to : i \in {j \in 1..Len(w.transitions) : w.transitions[j].from \in S}}

RECURSIVE Closure(_, _, _)
Closure(w, S, n) == IF n = 0 THEN S ELSE Closure(w, OneStep(w, S), n - 1)

\* The phase ids that declared transitions lead to from the first Start phase
Reachable(w) ==
    IF StartPositions(w) = {} THEN {}
    ELSE Closure(w, {w.phases[Min(StartPositions(w))].id}, Len(w.phases))

\* C27: a document that entered no phase yet and is moved by transition calls
\* against one built workflow has the empty current_phase exactly until the
\* first call that succeeds; that call enters the first Start phase, and from
\* then on current_phase is the id of a phase that declared transitions lead
\* to from the first Start phase, never the empty string again.
C27_PhaseReachableFromStart ==
    trail.created =>
        /\ doc.current_phase = "" <=> ~trail.succeeded
        /\ trail.succeeded =>
              /\ trail.entered = wf.phases[Min(StartPositions(wf))].id
              /\ doc.current_phase \in Reachable(wf)
              /\ doc.current_phase \in PhaseIdsOf(wf)

\* A document that entered "draft" first and is now in "review", under a
\* workflow from whose "review" no declared transition leads back.
C27_Witness ==
    /\ trail.created /\ trail.succeeded
    /\ trail.entered = "draft"
    /\ doc.current_phase = "review"
    /\ call.called /\ call.before.current_phase = "draft" /\ call.result = Ok
    /\ ~HasOutgoing(wf, "review")

\* C28: a document of the workflow whose non-empty current_phase is the id of
\* none of the workflow's phases never leaves it: every transition call
\* fails, with UnknownPhase(target) when the target is no phase either and
\* with InvalidTransition{current_phase, target} when it is one, and
\* current_phase stays as it was.  A built workflow declares no transition
\* that starts at an id of no phase.
C28_UnknownCurrentPhaseIsStuck ==
    (/\ call.called /\ Matching
     /\ call.before.current_phase # ""
     /\ call.before.current_phase \notin PhaseIdsOf(call.workflow)) =>
        /\ \A i \in 1..Len(call.workflow.transitions) :
              call.workflow.transitions[i].from # call.before.current_phase
        /\ call.result =
              IF TargetExists
              THEN Err(InvalidTransition(call.before.current_phase, call.target))
              ELSE Err(UnknownPhase(call.target))
        /\ doc = call.before

\* A document stored in "review" under a workflow that has the phase "draft"
\* alone and asked to move to "draft": InvalidTransition.
C28_Witness ==
    /\ call.called /\ Matching
    /\ PhaseIdsOf(call.workflow) = {"draft"}
    /\ call.before.current_phase = "review"
    /\ call.target = "draft"
    /\ call.result = Err(InvalidTransition("review", "draft"))
    /\ doc.current_phase = "review"

\* Where in the checked form the field of this id is declared
PositionOf(field_id) ==
    Min({i \in 1..Len(vcall.form.fields) : vcall.form.fields[i].id = field_id})

\* C29: when the ids agree there is at most one error for each declared
\* field, so never more errors than fields, and the errors stand in the order
\* in which the form declares their fields.  Within one field the first check
\* that fails decides: a Number below its minimum is ValueTooLow whatever the
\* maximum is, and an array given to a multiple-choice Select is reported for
\* its first item that is no string or no option.
C29_OneFindingPerFieldInOrder ==
    Checked =>
        /\ Len(vcall.result.errors) <= Len(vcall.form.fields)
        /\ \A i \in 1..Len(vcall.form.fields) :
              Len(FindingsOn(vcall.result, vcall.form.fields[i].id)) <= 1
        /\ \A k, l \in 1..Len(vcall.result.errors) :
              k < l => PositionOf(vcall.result.errors[k].field_id)
                          < PositionOf(vcall.result.errors[l].field_id)
        /\ \A i \in Holding("Number") :
              LET field == vcall.form.fields[i]
                  v == ValueUnder(vcall.doc, field.id)
              IN  (v.json = "Number" /\ field.field_type.min.some
                                     /\ v.n < field.field_type.min.val)
                      => FindingsOn(vcall.result, field.id)
                            = <<ValueTooLow(field.id, v.n, field.field_type.min.val)>>
        /\ \A i \in Holding("Select") :
              LET field == vcall.form.fields[i]
                  options == field.field_type.options
                  v == ValueUnder(vcall.doc, field.id)
                  bad == IF v.json = "Array"
                         THEN {k \in 1..Len(v.items) :
                                  v.items[k].json # "String" \/ ~IsOption(options, v.items[k].s)}
                         ELSE {}
              IN  (field.field_type.allow_multiple /\ bad # {})
                      => FindingsOn(vcall.result, field.id)
                            = <<IF v.items[Min(bad)].json # "String"
                                THEN InvalidType(field.id, "String", get_json_type(v.items[Min(bad)]))
                                ELSE InvalidSelection(field.id, v.items[Min(bad)].s, options)>>

\* The form of three fields, a document without the required title, with a
\* severity within its bounds and a status that is no option: two errors,
\* the title's before the status's.
C29_Witness ==
    /\ Checked
    /\ Len(vcall.form.fields) = 3
    /\ [key |-> "severity", value |-> JsonNumber(3)] \in vcall.doc.data
    /\ vcall.result.errors
          = <<MissingRequiredField("title"),
              InvalidSelection("status", "Five", <<"Open", "Closed">>)>>

\* C30: FieldBuilder::build accepts a Number field whose min is above its max,
\* and validate_document rejects every numeric value given to such a field:
\* with ValueTooLow when the value is below min, with ValueTooHigh otherwise.
C30_MinAboveMaxRejectsEveryNumber ==
    Checked =>
        \A i \in Holding("Number") :
            LET field == vcall.form.fields[i]
                min == field.field_type.min
                max == field.field_type.max
                v == ValueUnder(vcall.doc, field.id)
                b == [id |-> field.id, label |-> field.label, field_type |-> field.field_type,
                      required |-> field.required, description |-> field.description]
            IN  (min.some /\ max.some /\ min.val > max.val) =>
                    /\ TryFromFieldBuilder(b) = [ok |-> TRUE, def |-> field, errors |-> {}]
                    /\ v.json = "Number" =>
                          /\ ~vcall.result.ok
                          /\ FindingsOn(vcall.result, field.id)
                                = <<IF v.n < min.val
                                    THEN ValueTooLow(field.id, v.n, min.val)
                                    ELSE ValueTooHigh(field.id, v.n, max.val)>>

\* A field with min 5 and max 1 given 3, which is below the one and above the
\* other: ValueTooLow.
C30_Witness ==
    /\ Checked
    /\ Len(vcall.form.fields) = 1
    /\ vcall.form.fields[1].field_type = Number(Some(5), Some(1))
    /\ [key |-> vcall.form.fields[1].id, value |-> JsonNumber(3)] \in vcall.doc.data
    /\ vcall.result.errors = <<ValueTooLow(vcall.form.fields[1].id, 3, 5)>>

====
